---------------------------- MODULE Spec2Model ----------------------------
(***************************************************************************)
(* A model of the nodots tree-walking interpreter (src/interpreter.py).    *)
(*                                                                         *)
(* The interpreter is a family of mutually recursive functions over a      *)
(* syntax tree that read and write a graph of Context objects.  Each       *)
(* eval_* function is an operator of the same name that takes the node,    *)
(* the context it is evaluated in and the interpreter's heap, and yields   *)
(* the heap after the evaluation with either the Value computed or the     *)
(* exception raised.  Python exceptions (LanguageError, ReturnEscape,      *)
(* BreakEscape, ContinueEscape and the host's own IndexError, TypeError,   *)
(* RecursionError) are outcomes that every caller either handles, where    *)
(* the code has an except clause, or hands on unchanged.                   *)
(*                                                                         *)
(* Numbers are Python floats in the code; here they are exact rationals    *)
(* <<numerator, denominator>> in lowest terms, so rounding is not          *)
(* modelled.  Strings are sequences of one-character strings.              *)
(***************************************************************************)
EXTENDS Integers, Sequences, FiniteSets, TLC

(***************************************************************************)
(* Bounds of the model.                                                    *)
(***************************************************************************)
\* the number of Context objects a harness run may create
MaxContexts == 2
\* the host's recursion limit, scaled down: the number of nested
\* call_as_func frames after which Python raises RecursionError
RecursionLimit == 2
\* the chunk size of read (1024 characters), scaled down
chunk_size == 2

(***************************************************************************)
(* Syntax trees: class Tree and class Token.                               *)
(***************************************************************************)
Token(value) ==
    [kind |-> "token", data |-> "token", value |-> value, line |-> 0,
     children |-> <<>>]

Tree(data, children) ==
    [kind |-> "tree", data |-> data, value |-> "", line |-> 0,
     children |-> children]

\* Token.__eq__: a token equals a string when its text does; a Tree has no
\* __eq__ and equals no string.
TokenEq(node, text) == node.kind = "token" /\ node.value = text

\* list.index(text): the first position holding a token equal to text
\* (0 when there is none, where Python raises ValueError)
RECURSIVE IndexFrom(_, _, _)
IndexFrom(children, text, i) ==
    IF i > Len(children) THEN 0
    ELSE IF TokenEq(children[i], text) THEN i
    ELSE IndexFrom(children, text, i + 1)

Index(children, text) == IndexFrom(children, text, 1)

(***************************************************************************)
(* Numbers.                                                                *)
(***************************************************************************)
Abs(n) == IF n < 0 THEN -n ELSE n

RECURSIVE Gcd(_, _)
Gcd(a, b) == IF b = 0 THEN a ELSE Gcd(b, a % b)

\* the rational n/d in lowest terms with a positive denominator (d # 0)
Rat(n, d) ==
    LET g == Gcd(Abs(n), Abs(d))
        s == IF d < 0 THEN -1 ELSE 1
    IN  <<(s * n) \div g, (s * d) \div g>>

RatAdd(a, b) == Rat(a[1] * b[2] + b[1] * a[2], a[2] * b[2])
RatSub(a, b) == Rat(a[1] * b[2] - b[1] * a[2], a[2] * b[2])
RatMul(a, b) == Rat(a[1] * b[1], a[2] * b[2])
\* a division that multiplies
RatDivAsProduct(a, b) == Rat(a[1] * b[1], a[2] * b[2])
RatDiv(a, b) == Rat(a[1] * b[2], a[2] * b[1])
RatNeg(a) == <<-a[1], a[2]>>
RatLt(a, b) == a[1] * b[2] < b[1] * a[2]
RatLe(a, b) == a[1] * b[2] <= b[1] * a[2]
RatIsZero(a) == a[1] = 0

DigitChars == <<"0", "1", "2", "3", "4", "5", "6", "7", "8", "9">>

\* the decimal text of a natural number
RECURSIVE Numeral(_)
Numeral(n) ==
    IF n < 10 THEN <<DigitChars[n + 1]>>
    ELSE Numeral(n \div 10) \o <<DigitChars[(n % 10) + 1]>>

\* str(x) of a float x that has at most one decimal place: "1.0", "-2.5"
\* (the model has one zero, which is written "0.0")
FloatStr(x) ==
    (IF x[1] < 0 THEN <<"-">> ELSE <<>>)
        \o Numeral(Abs(x[1]) \div x[2]) \o <<".">>
        \o Numeral(((Abs(x[1]) % x[2]) * 10) \div x[2])

Digit(c) ==
    CASE c = "0" -> 0 [] c = "1" -> 1 [] c = "2" -> 2 [] c = "3" -> 3
      [] c = "4" -> 4 [] c = "5" -> 5 [] c = "6" -> 6 [] c = "7" -> 7
      [] c = "8" -> 8 [] c = "9" -> 9

\* float(text) for the text of a NUMBER token: digits with at most one "."
RECURSIVE FloatFrom(_, _, _, _)
FloatFrom(text, i, n, d) ==
    IF i > Len(text) THEN Rat(n, IF d = 0 THEN 1 ELSE d)
    ELSE IF text[i] = "." THEN FloatFrom(text, i + 1, n, 1)
    ELSE FloatFrom(text, i + 1, n * 10 + Digit(text[i]),
                   IF d = 0 THEN 0 ELSE d * 10)

Float(text) == FloatFrom(text, 1, 0, 0)

(***************************************************************************)
(* Values: class Value and its subclasses.  cls is the class name that     *)
(* check_type compares, value the wrapped Python value, and id the         *)
(* identity of the object (Python's id()), which the == of lists and dicts *)
(* compares their elements by: 0 in a Value that no evaluation has handed  *)
(* out yet.                                                                *)
(***************************************************************************)
BoolValue(b) == [cls |-> "BoolValue", value |-> b, id |-> 0]
NilValue == [cls |-> "NilValue", value |-> "None", id |-> 0]
NumberValue(q) == [cls |-> "NumberValue", value |-> q, id |-> 0]
StringValue(s) == [cls |-> "StringValue", value |-> s, id |-> 0]
\* the wrapped callable is an entry of the heap's table of functions
FunctionValue(f) == [cls |-> "FunctionValue", value |-> f, id |-> 0]

\* the heap after one more object was made, and the object with its identity
Fresh(h) == [h EXCEPT !.ids = @ + 1]
Identified(h, v) == [v EXCEPT !.id = h.ids + 1]

(***************************************************************************)
(* Outcomes of an evaluation: the heap after it, and either the Value      *)
(* returned (exc = "") or the exception raised.  A ReturnEscape carries    *)
(* the returned Value, a LanguageError its line and message (the column    *)
(* is left out).                                                           *)
(***************************************************************************)
\* a Value the returning expression has just made is a new object
Return(h, v) ==
    IF v.id = 0
    THEN [h |-> Fresh(h), exc |-> "", value |-> Identified(h, v), line |-> 0,
          message |-> ""]
    ELSE [h |-> h, exc |-> "", value |-> v, line |-> 0, message |-> ""]

\* the return of a Python list of Values, which is no Value
ReturnAll(h, values) ==
    [h |-> h, exc |-> "", value |-> values, line |-> 0, message |-> ""]
Raise(h, exc, line, message) ==
    [h |-> h, exc |-> exc, value |-> NilValue, line |-> line, message |-> message]
LanguageError(h, line, message) == Raise(h, "LanguageError", line, message)
\* a return statement that raises nothing
ReturnIgnored(h, v) == [h |-> h, exc |-> "", value |-> v, line |-> 0, message |-> ""]

ReturnEscape(h, v) ==
    [h |-> h, exc |-> "ReturnEscape", value |-> v, line |-> 0, message |-> ""]

(***************************************************************************)
(* class Context.  The heap h holds every Context made so far in           *)
(* h.contexts; a Context is named by its position there, and parent = 0    *)
(* is Python's None.  lookup is the dict of the scope's own bindings.      *)
(***************************************************************************)
Context(parent) == [parent |-> parent, lookup |-> <<>>]

\* the loop shared by set and get: the nearest scope from cur outward
\* whose lookup has key, or 0 when the walk runs off the root
RECURSIVE Walk(_, _, _)
Walk(contexts, cur, key) ==
    IF cur = 0 THEN 0
    ELSE IF key \in DOMAIN contexts[cur].lookup THEN cur
    ELSE Walk(contexts, contexts[cur].parent, key)

Store(h, c, key, value) ==
    [h EXCEPT !.contexts[c].lookup =
        [k \in (DOMAIN @) \cup {key} |-> IF k = key THEN value ELSE @[k]]]

\* a set that always binds in the scope it is called on
ContextSetShadowing(h, self, key, value) == Store(h, self, key, value)

ContextSet(h, self, key, value) ==
    LET cur == Walk(h.contexts, self, key)
    IN  IF cur # 0 THEN Store(h, cur, key, value)
        ELSE Store(h, self, key, value)

\* a get that looks in the scope it is called on only
ContextGetLocal(h, self, line, key) ==
    IF key \in DOMAIN h.contexts[self].lookup
    THEN Return(h, h.contexts[self].lookup[key])
    ELSE LanguageError(h, line, "unknown variable")

ContextGet(h, self, line, key) ==
    LET cur == Walk(h.contexts, self, key)
    IN  IF cur # 0 THEN Return(h, h.contexts[cur].lookup[key])
        ELSE LanguageError(h, line, "unknown variable")

\* the bindings a scope sees: its own and those of its ancestors that no
\* nearer scope shadows
RECURSIVE Visible(_, _)
Visible(contexts, cur) ==
    IF cur = 0 THEN <<>>
    ELSE LET outer == Visible(contexts, contexts[cur].parent)
             own == contexts[cur].lookup
         IN  [k \in (DOMAIN own) \cup (DOMAIN outer) |->
                 IF k \in DOMAIN own THEN own[k] ELSE outer[k]]

\* a child that copies the bindings its parent sees when it is made
GetChildContextSnapshot(h, self) ==
    [h EXCEPT !.contexts =
        Append(@, [parent |-> self, lookup |-> Visible(h.contexts, self)])]

\* get_child_context: the heap with the child appended (the child is the
\* last Context of the result)
GetChildContext(h, self) ==
    [h EXCEPT !.contexts = Append(@, Context(self))]

NewContext(h) == Len(h.contexts)

(***************************************************************************)
(* The heap: every Context, every callable wrapped by a FunctionValue,     *)
(* the depth of nested call_as_func frames, and a history of what was      *)
(* evaluated (which the code does not keep; it is what the properties      *)
(* below observe).                                                         *)
(***************************************************************************)
Event(ev, line, context, name) ==
    [ev |-> ev, line |-> line, context |-> context, name |-> name, function |-> 0]

Log(h, ev, line, context, name) ==
    [h EXCEPT !.trace = Append(@, Event(ev, line, context, name))]

EmptyHeap ==
    [contexts |-> <<>>, functions |-> <<>>, objects |-> <<>>, depth |-> 0,
     trace |-> <<>>, ids |-> 0, files |-> <<>>,
     profile |-> FALSE, calls |-> <<>>, report |-> <<>>]

\* what a host function that ends without a return statement hands back:
\* Python's None, which is no Value and has none of Value's methods
\* (there is one None: the identity -1)
PyNone == [cls |-> "NoneType", value |-> "None", id |-> -1]

NoAttribute(h) == Raise(h, "AttributeError", 0, "'NoneType' object has no attribute")

\* Value.check_type: returns (None) when the class name is the expected one
\* or one of the expected ones, and raises LanguageError otherwise
check_type(self, h, line, some_type_or_types, message) ==
    IF self.cls = "NoneType" THEN NoAttribute(h)
    ELSE IF self.cls \in some_type_or_types THEN Return(h, PyNone)
    ELSE LanguageError(h, line, message)

\* key_from_identifier_node
key_from_identifier_node(node) == node.children[1].value

(***************************************************************************)
(* The evaluator.                                                          *)
(***************************************************************************)
RECURSIVE Eval(_, _, _, _)
RECURSIVE eval_arguments_from(_, _, _, _, _)
RECURSIVE eval_primary(_, _, _)
RECURSIVE eval_call(_, _, _)
RECURSIVE apply_arguments(_, _, _, _, _, _)
RECURSIVE builtin(_, _, _, _)
RECURSIVE eval_unary(_, _, _)
RECURSIVE eval_factor(_, _, _)
RECURSIVE eval_term(_, _, _)
RECURSIVE eval_comparison(_, _, _)
RECURSIVE eval_equality(_, _, _)
RECURSIVE eval_logic_and(_, _, _)
RECURSIVE eval_logic_or(_, _, _)
RECURSIVE eval_assignment(_, _, _)
RECURSIVE eval_expression(_, _, _)
RECURSIVE eval_expression_stmt(_, _, _)
RECURSIVE eval_return_stmt(_, _, _)
RECURSIVE eval_if_stmt(_, _, _)
RECURSIVE if_body(_, _, _, _, _)
RECURSIVE eval_for_stmt(_, _, _)
RECURSIVE for_loop(_, _, _)
RECURSIVE for_body(_, _, _, _)
RECURSIVE eval_statement(_, _, _)
RECURSIVE eval_function(_, _, _)
RECURSIVE function(_, _, _, _)
RECURSIVE function_body(_, _, _, _)
RECURSIVE call_as_func(_, _, _, _)
RECURSIVE eval_fun_decl(_, _, _)
RECURSIVE eval_declaration(_, _, _)

\* eval_identifier: a Token has no children, so node.children[0] raises
\* IndexError when the node handed in is a token
eval_identifier(node, context, h) ==
    IF Len(node.children) = 0 THEN Raise(h, "IndexError", 0, "list index out of range")
    ELSE ContextGet(Log(h, "get", node.line, context, node.children[1].value),
                    context, node.line, node.children[1].value)

eval_primary(node, context, h) ==
    IF Len(node.children) = 1 THEN Eval("eval_identifier", node.children[1], context, h)
    ELSE IF node.children[2].data = "expression"
         THEN Eval("eval_expression", node.children[2], context, h)
         ELSE Raise(h, "Exception", 0, "unreachable")

\* eval_arguments: the expressions among the children, evaluated in order
eval_arguments_from(node, context, h, i, values) ==
    IF i > Len(node.children) THEN ReturnAll(h, values)
    ELSE IF node.children[i].kind # "tree"
         THEN eval_arguments_from(node, context, h, i + 1, values)
         ELSE LET r == Eval("eval_expression", node.children[i], context, h)
              IN  IF r.exc # "" THEN r
                  ELSE eval_arguments_from(node, context, r.h, i + 1,
                                           Append(values, r.value))

eval_arguments(node, context, h) == eval_arguments_from(node, context, h, 1, <<>>)

\* the absent argument list of a call written `f()`
None == Tree("None", <<>>)

\* the first loop of eval_call: one entry per ")" among the children, the
\* arguments node before it or None
RECURSIVE argument_lists(_, _)
argument_lists(children, i) ==
    IF i > Len(children) THEN <<>>
    ELSE IF TokenEq(children[i], ")")
         THEN (IF TokenEq(children[i - 1], "(") THEN <<None>>
               ELSE <<children[i - 1]>>) \o argument_lists(children, i + 1)
         ELSE argument_lists(children, i + 1)

eval_call(node, context, h) ==
    IF Len(node.children) = 1
    THEN LET child == node.children[1]
         IN  CASE child.data = "true" -> Return(h, BoolValue(TRUE))
               [] child.data = "false" -> Return(h, BoolValue(FALSE))
               [] child.data = "primary" -> Eval("eval_primary", child, context, h)
               [] child.data = "number" ->
                    Return(h, NumberValue(Float(child.children[1].value)))
               [] child.data = "nil" -> Return(h, NilValue)
               [] child.data = "string" ->
                    Return(h, StringValue(SubSeq(child.children[1].value, 2,
                                  Len(child.children[1].value) - 1)))
               [] OTHER -> Raise(h, "Exception", 0, "unreachable")
    ELSE LET current_func == Eval("eval_primary", node.children[1], context, h)
         IN  IF current_func.exc # "" THEN current_func
             ELSE apply_arguments(node, context, current_func.h,
                                  argument_lists(node.children, 2), 1,
                                  current_func.value)

\* the second loop of eval_call: each argument list is evaluated, then
\* applied to the result of the application before it
\* Context.track_call: every Context of a run holds the same line_durations
\* dictionary, so its "calls" list is one list of the run; the duration is
\* wall-clock time, of which only its presence is kept
track_call(h, line) ==
    IF h.profile
    THEN [h EXCEPT !.calls = Append(@, [line |-> line, duration |-> "elapsed"])]
    ELSE h

apply_arguments(node, context, h, arguments, i, current_func) ==
    IF i > Len(arguments) THEN Return(h, current_func)
    \* current_func.call_as_func is looked up before the arguments are
    \* evaluated
    ELSE IF current_func.cls = "NoneType" THEN NoAttribute(h)
    ELSE LET args == IF arguments[i].data # "None"
                     THEN Eval("eval_arguments", arguments[i], context, h)
                     ELSE ReturnAll(h, <<>>)
         IN  IF args.exc # "" THEN args
             ELSE LET r == call_as_func(current_func, node.children[1].line,
                                  args.value,
                                  Log(args.h, "apply", node.children[1].line,
                                      context, ""))
                  IN  IF r.exc # "" THEN r
                      ELSE apply_arguments(node, context,
                                           track_call(r.h, node.children[1].line),
                                           arguments, i + 1, r.value)

eval_unary(node, context, h) ==
    IF Len(node.children) = 1 THEN Eval("eval_call", node.children[1], context, h)
    ELSE LET op == node.children[1]
             left == Eval("eval_unary", node.children[2], context, h)
         IN  IF left.exc # "" THEN left
             ELSE IF TokenEq(op, "-")
             THEN LET left_type ==
                       check_type(left.value, left.h, node.children[2].line, {"NumberValue"},
                           "only numbers can be negated")
                 IN  IF left_type.exc # "" THEN left_type
                 ELSE Return(left.h, NumberValue(RatNeg(left.value.value)))
             ELSE IF TokenEq(op, "!")
             THEN LET left_type ==
                       check_type(left.value, left.h, node.children[2].line, {"BoolValue"},
                           "only booleans can be flipped")
                 IN  IF left_type.exc # "" THEN left_type
                 ELSE Return(left.h, BoolValue(~left.value.value))
             ELSE Raise(left.h, "Exception", 0, "unreachable")

(***************************************************************************)
(* The binary levels share one shape: the first operand, the first         *)
(* operator and the second operand of the node are read (children 0, 1     *)
(* and 2 of the Python list), both operands are evaluated, both are type   *)
(* checked, and the operator is applied.                                   *)
(***************************************************************************)
eval_factor(node, context, h) ==
    IF Len(node.children) = 1 THEN Eval("eval_unary", node.children[1], context, h)
    ELSE LET left == Eval("eval_unary", node.children[1], context, h)
         IN  IF left.exc # "" THEN left
             ELSE
             LET op == node.children[2]
                 right == Eval("eval_unary", node.children[3], context, left.h)
             IN  IF right.exc # "" THEN right
                 ELSE LET left_type ==
                       check_type(left.value, right.h, node.children[1].line, {"NumberValue"},
                           "only numbers can be factored")
                 IN  IF left_type.exc # "" THEN left_type
                 ELSE LET right_type ==
                       check_type(right.value, right.h, node.children[3].line, {"NumberValue"},
                           "only numbers can be factored")
                 IN  IF right_type.exc # "" THEN right_type
                 ELSE IF TokenEq(op, "*")
                 THEN Return(right.h, NumberValue(RatMul(left.value.value,
                                                        right.value.value)))
                 ELSE IF TokenEq(op, "/")
                 THEN IF RatIsZero(right.value.value)
                      THEN LanguageError(right.h, node.children[1].line,
                                         "cannot divide by zero")
                      ELSE Return(right.h, NumberValue(RatDiv(left.value.value,
                                                             right.value.value)))
                 ELSE Raise(right.h, "Exception", 0, "unreachable")

eval_term(node, context, h) ==
    IF Len(node.children) = 1 THEN Eval("eval_factor", node.children[1], context, h)
    ELSE LET left == Eval("eval_factor", node.children[1], context, h)
         IN  IF left.exc # "" THEN left
             ELSE
             LET op == node.children[2]
                 right == Eval("eval_factor", node.children[3], context, left.h)
             IN  IF right.exc # "" THEN right
                 ELSE LET left_type ==
                       check_type(left.value, right.h, node.children[1].line, {"NumberValue"},
                           "only numbers can be added or subtracted")
                 IN  IF left_type.exc # "" THEN left_type
                 ELSE LET right_type ==
                       check_type(right.value, right.h, node.children[3].line, {"NumberValue"},
                           "only numbers can be added or subtracted")
                 IN  IF right_type.exc # "" THEN right_type
                 ELSE IF TokenEq(op, "+")
                 THEN Return(right.h, NumberValue(RatAdd(left.value.value,
                                                        right.value.value)))
                 ELSE IF TokenEq(op, "-")
                 THEN Return(right.h, NumberValue(RatSub(left.value.value,
                                                        right.value.value)))
                 ELSE Raise(right.h, "Exception", 0, "unreachable")

eval_comparison(node, context, h) ==
    IF Len(node.children) = 1 THEN Eval("eval_term", node.children[1], context, h)
    ELSE LET left == Eval("eval_term", node.children[1], context, h)
         IN  IF left.exc # "" THEN left
             ELSE
             LET op == node.children[2]
                 right == Eval("eval_term", node.children[3], context, left.h)
             IN  IF right.exc # "" THEN right
                 ELSE LET left_type ==
                       check_type(left.value, right.h, node.children[1].line, {"NumberValue"},
                           "only numbers can be compared")
                 IN  IF left_type.exc # "" THEN left_type
                 ELSE LET right_type ==
                       check_type(right.value, right.h, node.children[3].line, {"NumberValue"},
                           "only numbers can be compared")
                 IN  IF right_type.exc # "" THEN right_type
                 ELSE IF TokenEq(op, "<")
                 THEN Return(right.h, BoolValue(RatLt(left.value.value,
                                                      right.value.value)))
                 ELSE IF TokenEq(op, "<=")
                 THEN Return(right.h, BoolValue(RatLe(left.value.value,
                                                      right.value.value)))
                 ELSE IF TokenEq(op, ">")
                 THEN Return(right.h, BoolValue(RatLt(right.value.value,
                                                      left.value.value)))
                 ELSE IF TokenEq(op, ">=")
                 THEN Return(right.h, BoolValue(RatLe(right.value.value,
                                                      left.value.value)))
                 ELSE Raise(right.h, "Exception", 0, "unreachable")

\* Python's == on the wrapped values: a bool equals the number 1 or 0,
\* None equals None only, and values of other unlike types are unequal
AsNumber(v) ==
    IF v.cls = "BoolValue" THEN (IF v.value THEN <<1, 1>> ELSE <<0, 1>>)
    ELSE v.value

\* x is y or x == y, which the == of two lists compares their elements by:
\* class Value defines no __eq__, so a Value equals itself only; host
\* strings and host floats are equal by content
SameElement(a, b) ==
    IF a.cls \in {"str", "float"} \/ b.cls \in {"str", "float"}
    THEN a.cls = b.cls /\ a.value = b.value
    ELSE a.id = b.id

PyEq(a, b, h) ==
    IF a.cls \in {"NumberValue", "BoolValue"} /\ b.cls \in {"NumberValue", "BoolValue"}
    THEN AsNumber(a) = AsNumber(b)
    ELSE IF a.cls = "ListValue" /\ b.cls = "ListValue"
    THEN LET x == h.objects[a.value]
             y == h.objects[b.value]
         IN  /\ Len(x) = Len(y)
             /\ \A i \in DOMAIN x : SameElement(x[i], y[i])
    ELSE IF a.cls = "DictValue" /\ b.cls = "DictValue"
    THEN LET x == h.objects[a.value]
             y == h.objects[b.value]
         IN  /\ Len(x) = Len(y)
             /\ \A i \in DOMAIN x : \E j \in DOMAIN y :
                    /\ SameElement(x[i].key, y[j].key)
                    /\ SameElement(x[i].value, y[j].value)
    ELSE a.cls = b.cls /\ a.value = b.value

\* Value.equals and Value.not_equals
equals(self, other, h) ==
    IF self.cls = "NoneType" \/ other.cls = "NoneType" THEN NoAttribute(h)
    ELSE Return(h, BoolValue(PyEq(self, other, h)))

not_equals(self, other, h) ==
    IF self.cls = "NoneType" \/ other.cls = "NoneType" THEN NoAttribute(h)
    ELSE Return(h, BoolValue(~PyEq(self, other, h)))

eval_equality(node, context, h) ==
    IF Len(node.children) = 1 THEN Eval("eval_comparison", node.children[1], context, h)
    ELSE LET left == Eval("eval_comparison", node.children[1], context, h)
         IN  IF left.exc # "" THEN left
             ELSE
             LET op == node.children[2]
                 right == Eval("eval_comparison", node.children[3], context, left.h)
             IN  IF right.exc # "" THEN right
                 ELSE IF TokenEq(op, "==")
                 THEN equals(left.value, right.value, right.h)
                 ELSE IF TokenEq(op, "!=")
                 THEN not_equals(left.value, right.value, right.h)
                 ELSE Raise(right.h, "Exception", 0, "unreachable")

eval_logic_and(node, context, h) ==
    IF Len(node.children) = 1 THEN Eval("eval_equality", node.children[1], context, h)
    ELSE LET left == Eval("eval_equality", node.children[1], context, h)
         IN  IF left.exc # "" THEN left
             ELSE
             LET op == node.children[2]
                 right == Eval("eval_equality", node.children[3], context, left.h)
             IN  IF right.exc # "" THEN right
                 ELSE LET left_type ==
                       check_type(left.value, right.h, node.children[1].line, {"BoolValue"},
                           "only booleans can be used with 'and'")
                 IN  IF left_type.exc # "" THEN left_type
                 ELSE LET right_type ==
                       check_type(right.value, right.h, node.children[3].line, {"BoolValue"},
                           "only booleans can be used with 'and'")
                 IN  IF right_type.exc # "" THEN right_type
                 ELSE IF TokenEq(op, "and")
                 THEN Return(right.h, BoolValue(left.value.value /\ right.value.value))
                 ELSE Raise(right.h, "Exception", 0, "unreachable")

eval_logic_or(node, context, h) ==
    IF Len(node.children) = 1 THEN Eval("eval_logic_and", node.children[1], context, h)
    ELSE LET left == Eval("eval_logic_and", node.children[1], context, h)
         IN  IF left.exc # "" THEN left
             ELSE
             LET op == node.children[2]
                 right == Eval("eval_logic_and", node.children[3], context, left.h)
             IN  IF right.exc # "" THEN right
                 ELSE LET left_type ==
                       check_type(left.value, right.h, node.children[1].line, {"BoolValue"},
                           "only booleans can be used with 'or'")
                 IN  IF left_type.exc # "" THEN left_type
                 ELSE LET right_type ==
                       check_type(right.value, right.h, node.children[3].line, {"BoolValue"},
                           "only booleans can be used with 'or'")
                 IN  IF right_type.exc # "" THEN right_type
                 ELSE IF TokenEq(op, "or")
                 THEN Return(right.h, BoolValue(left.value.value \/ right.value.value))
                 ELSE Raise(right.h, "Exception", 0, "unreachable")

\* an assignment that yields the value it assigned
assignment_yielding_value(node, context, h) ==
    IF node.children[1].data = "identifier"
    THEN LET key == key_from_identifier_node(node.children[1])
             value == Eval("eval_assignment", node.children[3], context, h)
         IN  IF value.exc # "" THEN value
             ELSE Return(ContextSet(Log(value.h, "set", node.line, context, key),
                                    context, key, value.value),
                         value.value)
    ELSE Eval("eval_logic_or", node.children[1], context, h)

eval_assignment(node, context, h) ==
    IF node.children[1].data = "identifier"
    THEN LET key == key_from_identifier_node(node.children[1])
             value == Eval("eval_assignment", node.children[3], context, h)
         IN  IF value.exc # "" THEN value
             ELSE Return(ContextSet(Log(value.h, "set", node.line, context, key),
                                    context, key, value.value),
                         NilValue)
    ELSE IF node.children[1].data = "logic_or"
    THEN Eval("eval_logic_or", node.children[1], context, h)
    ELSE Raise(h, "Exception", 0, "unreachable")

\* the first child that is an assignment (the grammar gives exactly one)
eval_expression(node, context, h) ==
    IF Len(node.children) >= 1 /\ node.children[1].data = "assignment"
    THEN Eval("eval_assignment", node.children[1], context, h)
    ELSE Raise(h, "Exception", 0, "unreachable")

\* the first child that is a tree, or Nil for the empty statement `;`
eval_expression_stmt(node, context, h) ==
    IF node.children[1].kind = "tree"
    THEN Eval("eval_expression", node.children[1], context, h)
    ELSE Return(h, NilValue)

\* ["return", expression?, ";"]
eval_return_stmt(node, context, h) ==
    IF node.children[2].kind = "tree"
    THEN LET r == Eval("eval_expression", node.children[2], context, h)
         IN  IF r.exc # "" THEN r ELSE ReturnEscape(r.h, r.value)
    ELSE ReturnEscape(h, NilValue)

\* the declarations of an if body in order; an exception of one ends it
if_body(node, context, h, i, end) ==
    IF i >= end THEN Return(h, NilValue)
    ELSE LET r == Eval("eval_declaration", node.children[i], context, h)
         IN  IF r.exc # "" THEN r
             ELSE if_body(node, context, r.h, i + 1, end)

eval_if_stmt(node, context, h) ==
    LET if_check == Eval("eval_expression", node.children[3], context, h)
    IN  IF if_check.exc # "" THEN if_check
        ELSE LET if_check_type ==
                       check_type(if_check.value, if_check.h, node.line, {"BoolValue"},
                           "if expressions expect a boolean")
                 IN  IF if_check_type.exc # "" THEN if_check_type
                 ELSE IF if_check.value.value # TRUE THEN Return(if_check.h, NilValue)
        ELSE if_body(node, context, if_check.h, Index(node.children, ")") + 1,
                     Index(node.children, "fi"))

\* the children of a node that are trees, in order
RECURSIVE Trees(_)
Trees(children) ==
    IF children = <<>> THEN <<>>
    ELSE (IF Head(children).kind = "tree" THEN <<Head(children)>> ELSE <<>>)
         \o Trees(Tail(children))

\* the inner loop of eval_for_stmt: the declarations of the body in order.
\* It ends with the exception of the declaration that raised, if any.
for_body(parts, for_context, h, i) ==
    IF i > Len(parts) THEN Return(h, NilValue)
    ELSE LET r == Eval("eval_declaration", parts[i], for_context, h)
         IN  IF r.exc # "" THEN r
             ELSE for_body(parts, for_context, r.h, i + 1)

\* a loop that takes every escape of its body for a break
ends_loop_on_escape(exc) == exc \in {"BreakEscape", "ContinueEscape"}

\* except BreakEscape: return NilValue(None)
ends_loop(exc) == exc = "BreakEscape"

\* the `while True` loop of eval_for_stmt
for_loop(parts, for_context, h) ==
    LET limit_check ==
            Eval("eval_expression_stmt", parts[2], for_context,
                                 Log(h, "limit", parts[2].line, for_context, ""))
    IN  IF limit_check.exc # "" THEN limit_check
        ELSE LET limit_type ==
                     check_type(limit_check.value, limit_check.h, parts[2].line,
                                {"BoolValue"}, "expected boolean")
        IN  IF limit_type.exc # "" THEN limit_type
        ELSE IF ~limit_check.value.value THEN Return(limit_check.h, NilValue)
        ELSE LET body == for_body(parts, for_context, limit_check.h, 4)
        IN  IF ends_loop(body.exc) THEN Return(body.h, NilValue)
        ELSE IF body.exc \notin {"", "ContinueEscape"} THEN body
        ELSE LET increment ==
                     Eval("eval_expression", parts[3], for_context,
                                     Log(body.h, "increment", parts[3].line,
                                         for_context, ""))
        IN  IF increment.exc # "" THEN increment
        ELSE for_loop(parts, for_context, increment.h)

\* a loop that runs in the scope it is written in
enclosing_scope(context, with_child) == context

\* for_context = context.get_child_context(): the child just made
for_scope(context, with_child) == NewContext(with_child)

eval_for_stmt(node, context, h) ==
    LET with_child == GetChildContext(h, context)
        for_context == for_scope(context, with_child)
        parts == Trees(node.children)
        initial == Eval("eval_expression_stmt", parts[1], for_context, with_child)
    IN  IF initial.exc # "" THEN initial
        ELSE for_loop(parts, for_context, initial.h)

eval_statement(node, context, h) ==
    LET child == node.children[1]
    IN  CASE child.data = "expression_stmt" -> Eval("eval_expression_stmt", child, context, h)
          [] child.data = "return_stmt" -> Eval("eval_return_stmt", child, context, h)
          [] child.data = "if_stmt" -> Eval("eval_if_stmt", child, context, h)
          [] child.data = "for_stmt" -> Eval("eval_for_stmt", child, context, h)
          [] child.data = "break_stmt" -> Raise(h, "BreakEscape", 0, "")
          [] child.data = "continue_stmt" -> Raise(h, "ContinueEscape", 0, "")
          [] OTHER -> Raise(h, "Exception", 0, "unreachable")

\* eval_parameters: the names of the identifiers among the children
RECURSIVE eval_parameters(_)
eval_parameters(children) ==
    IF children = <<>> THEN <<>>
    ELSE (IF Head(children).kind = "tree" /\ Head(children).data = "identifier"
          THEN <<key_from_identifier_node(Head(children))>> ELSE <<>>)
         \o eval_parameters(Tail(children))

\* the closure eval_function makes: what the nested def captures
Closure(function_context, parameters, body) ==
    [builtin |-> "", function_context |-> function_context,
     parameters |-> parameters, body |-> body]

eval_function(node, context, h) ==
    LET with_child == GetChildContext(h, context)
        function_context == NewContext(with_child)
        key == key_from_identifier_node(node.children[1])
        open == Index(node.children, "(")
        close == Index(node.children, ")")
        parameters == IF close - open = 2
                      THEN eval_parameters(node.children[open + 1].children)
                      ELSE <<>>
        body == SubSeq(node.children, close + 1, Len(node.children))
        with_function ==
            [with_child EXCEPT !.functions =
                Append(@, Closure(function_context, parameters, body))]
        f == Len(with_function.functions)
        logged == [with_function EXCEPT !.trace =
                      Append(@, [Event("set", node.line, context, key)
                                   EXCEPT !.function = f])]
    IN  Return(ContextSet(Fresh(logged), context, key,
                          Identified(logged, FunctionValue(f))), NilValue)

\* per_call_context.set(parameters[i], arg) for each argument in order
RECURSIVE bind_arguments(_, _, _, _, _)
bind_arguments(h, per_call_context, parameters, arguments, i) ==
    IF i > Len(arguments) THEN h
    ELSE bind_arguments(ContextSet(h, per_call_context, parameters[i], arguments[i]),
                        per_call_context, parameters, arguments, i + 1)

\* a call whose scope is a child of the root Context
root_parent(closure) == 1

\* the scope a call's per-call Context is made a child of
per_call_parent(closure) == closure.function_context

\* a body that hands a BreakEscape or ContinueEscape on to its caller
RECURSIVE function_body_forwarding(_, _, _, _)
function_body_forwarding(body, per_call_context, h, i) ==
    IF i > Len(body) THEN Return(h, NilValue)
    ELSE LET r == Eval("eval_declaration", body[i], per_call_context, h)
         IN  IF r.exc = "ReturnEscape" THEN Return(r.h, r.value)
             ELSE IF r.exc # "" THEN r
             ELSE function_body_forwarding(body, per_call_context, r.h, i + 1)

\* the loop over the body in the nested def: a ReturnEscape is the call's
\* result, a BreakEscape or ContinueEscape becomes a LanguageError
function_body(body, per_call_context, h, i) ==
    IF i > Len(body) THEN Return(h, NilValue)
    ELSE LET r == Eval("eval_declaration", body[i], per_call_context, h)
         IN  IF r.exc = "ReturnEscape" THEN Return(r.h, r.value)
             ELSE IF r.exc = "BreakEscape"
             THEN LanguageError(r.h, body[i].line,
                                "can't use 'break' outside of for loop body")
             ELSE IF r.exc = "ContinueEscape"
             THEN LanguageError(r.h, body[i].line,
                                "can't use 'continue' outside of for loop body")
             ELSE IF r.exc # "" THEN r
             ELSE function_body(body, per_call_context, r.h, i + 1)

\* a call that lets too few arguments through
WrongArityAsTooMany(arguments, parameters) == Len(arguments) > Len(parameters)

\* if len(arguments) != len(parameters)
WrongArity(arguments, parameters) == Len(arguments) # Len(parameters)

ArityMessage(want, got) ==
    "not enough (or too many) function arguments, want " \o ToString(want)
        \o ", got " \o ToString(got)

\* a call that runs in the scope made when the function was declared
declaration_scope(closure, with_child) == closure.function_context

\* per_call_context = function_context.get_child_context(): the child just
\* made
per_call_scope(closure, with_child) == NewContext(with_child)

\* the nested def of eval_function, called with the closure f
function(f, line, arguments, h) ==
    LET closure == h.functions[f]
    IN  IF WrongArity(arguments, closure.parameters)
        THEN LanguageError(h, line,
                           ArityMessage(Len(closure.parameters), Len(arguments)))
        ELSE LET with_child == GetChildContext(h, per_call_parent(closure))
                 per_call_context == per_call_scope(closure, with_child)
                 bound == bind_arguments(with_child, per_call_context,
                                         closure.parameters, arguments, 1)
             IN  function_body(closure.body, per_call_context,
                               [bound EXCEPT !.trace =
                                   Append(@, [Event("call", line, per_call_context, "")
                                                EXCEPT !.function = f])],
                               1)

(***************************************************************************)
(* Lists.  A ListValue wraps a Python list, which is shared by reference:  *)
(* value is the position of the list in h.objects.                         *)
(***************************************************************************)
ListValue(ref) == [cls |-> "ListValue", value |-> ref, id |-> 0]

\* a host string that is no Value (what iterating a str yields)
PyStr(c) == [cls |-> "str", value |-> <<c>>, id |-> 0]

RECURSIVE Characters(_)
Characters(s) ==
    IF s = <<>> THEN <<>> ELSE <<PyStr(Head(s))>> \o Characters(Tail(s))

\* ListValue(elements): the heap with the new list, which is its last object
NewList(h, elements) == [h EXCEPT !.objects = Append(@, elements)]

\* log: prints each value, and ends without a return statement
log(line, values, h) == Return(h, PyNone)

\* listof
listof(line, values, h) ==
    LET with_list == NewList(h, values)
    IN  Return(with_list, ListValue(Len(with_list.objects)))

\* join: each branch tests values[0] twice and values[1] never
join(line, values, h) ==
    IF Len(values) # 2
    THEN LanguageError(h, line, "join() expects two args")
    ELSE LET a == values[1]
             b == values[2]
         IN  IF a.cls = "StringValue"
             THEN IF a.cls # "StringValue"
                  THEN LanguageError(h, line, "join() expects two args")
                  \* str + str concatenates; str + anything else is a TypeError
                  ELSE IF b.cls = "NoneType" THEN NoAttribute(h)
                  ELSE IF b.cls = "StringValue"
                  THEN Return(h, StringValue(a.value \o b.value))
                  ELSE Raise(h, "TypeError", 0, "can only concatenate str to str")
             ELSE IF a.cls = "ListValue"
             THEN IF a.cls # "ListValue"
                  THEN LanguageError(h, line, "join() expects two args")
                  \* `for v in values[1].value` iterates a list's elements or
                  \* a str's characters; a float, bool, None or function is
                  \* not iterable
                  ELSE IF b.cls = "NoneType" THEN NoAttribute(h)
                  ELSE IF b.cls = "ListValue"
                  THEN LET with_list ==
                               NewList(h, h.objects[a.value] \o h.objects[b.value])
                       IN  Return(with_list, ListValue(Len(with_list.objects)))
                  ELSE IF b.cls = "StringValue"
                  THEN LET with_list ==
                               NewList(h, h.objects[a.value] \o Characters(b.value))
                       IN  Return(with_list, ListValue(Len(with_list.objects)))
                  ELSE Raise(h, "TypeError", 0, "object is not iterable")
             ELSE LanguageError(h, line, "join() expects two args")

\* length
length(line, values, h) ==
    IF Len(values) # 1
    THEN LanguageError(h, line, "len() expects a single arg")
    ELSE LET arg_type == check_type(values[1], h, line, {"StringValue", "ListValue"},
                                    "len() expects a (string | list)")
         IN  IF arg_type.exc # "" THEN arg_type
             ELSE IF values[1].cls = "StringValue"
             THEN Return(h, NumberValue(<<Len(values[1].value), 1>>))
             ELSE Return(h, NumberValue(<<Len(h.objects[values[1].value]), 1>>))

(***************************************************************************)
(* Dicts.  A DictValue wraps a Python dict, shared by reference like a     *)
(* list: the object is the sequence of its (key, value) entries in the     *)
(* order the keys were first stored.  A key is a host str or a host float. *)
(***************************************************************************)
DictValue(ref) == [cls |-> "DictValue", value |-> ref, id |-> 0]

PyText(chars) == [cls |-> "str", value |-> chars, id |-> 0]
PyFloat(x) == [cls |-> "float", value |-> x, id |-> 0]

\* the position of the key among the entries, or 0
KeyIndex(entries, key) ==
    IF \E i \in DOMAIN entries : SameElement(entries[i].key, key)
    THEN CHOOSE i \in DOMAIN entries : SameElement(entries[i].key, key)
    ELSE 0

\* d[key] = value
SetItem(entries, key, value) ==
    IF KeyIndex(entries, key) = 0
    THEN Append(entries, [key |-> key, value |-> value])
    ELSE [entries EXCEPT ![KeyIndex(entries, key)].value = value]

\* ret.value[key.value] = value: the key as it is, a str or a float
RawKey(key) ==
    IF key.cls = "StringValue" THEN PyText(key.value) ELSE PyFloat(key.value)

\* the loop of dictionary over the pairs of values
RECURSIVE dictionary_from(_, _, _, _, _)
dictionary_from(line, values, h, i, entries) ==
    IF i > Len(values)
    THEN LET with_dict == NewList(h, entries)
         IN  Return(with_dict, DictValue(Len(with_dict.objects)))
    ELSE LET key_type == check_type(values[i], h, line, {"StringValue", "NumberValue"},
                                    "only strings or numbers can be keys")
         IN  IF key_type.exc # "" THEN key_type
             ELSE dictionary_from(line, values, h, i + 2,
                      SetItem(entries, RawKey(values[i]), values[i + 1]))

dictionary(line, values, h) ==
    IF Len(values) % 2 # 0
    THEN LanguageError(h, line, "dict expects an even number of args")
    ELSE dictionary_from(line, values, h, 1, <<>>)

\* a check that lets the length of the list through as an index
OutOfBoundsBeyond(index, list) == ~RatLe(index, Rat(Len(list), 1))

\* values[1].value >= len(list_value.value)
OutOfBounds(index, list) == ~RatLt(index, Rat(Len(list), 1))

\* the checks mut and at make of a list index, which are the same
list_index(line, values, h) ==
    LET index_type == check_type(values[2], h, line, {"NumberValue"},
                                 "lists can only be indexed by numbers")
        index == values[2].value
    IN  IF index_type.exc # "" THEN index_type
        ELSE IF RatLt(index, Rat(0, 1)) \/ index[2] # 1
        THEN LanguageError(h, line, "list index must be a positive whole number")
        ELSE IF OutOfBounds(index, h.objects[values[1].value])
        THEN LanguageError(h, line, "list index out of bounds")
        ELSE Return(h, PyNone)

\* the key mut and at use for a dict: a string as it is, a number as the
\* text of its float
dict_key(line, values, h) ==
    check_type(values[2], h, line, {"StringValue", "NumberValue"},
               "lists can only be indexed by strings or numbers")

Key(key) ==
    IF key.cls = "StringValue" THEN PyText(key.value)
    ELSE PyText(FloatStr(key.value))

\* a mut that puts the value in the place after the index
ListSetNext(list, index, value) ==
    [list EXCEPT ![IF index + 2 <= Len(list) THEN index + 2 ELSE 1] = value]

\* list_value.value[index] = values[2]
ListSet(list, index, value) == [list EXCEPT ![index + 1] = value]

\* Python's own check of list[index] for an index that is not negative
IndexError(h) == Raise(h, "IndexError", 0, "list index out of range")

mut(line, values, h) ==
    IF Len(values) # 3
    THEN LanguageError(h, line, "mut() expects three args (object, index, value)")
    ELSE IF values[1].cls = "NoneType" THEN NoAttribute(h)
    ELSE IF values[1].cls = "ListValue"
    THEN LET checked == list_index(line, values, h)
         IN  IF checked.exc # "" THEN checked
             ELSE IF values[2].value[1] >= Len(h.objects[values[1].value])
             THEN IndexError(h)
             ELSE Return([h EXCEPT !.objects[values[1].value] =
                             ListSet(@, values[2].value[1], values[3])],
                         NilValue)
    ELSE IF values[1].cls = "DictValue"
    THEN LET checked == dict_key(line, values, h)
         IN  IF checked.exc # "" THEN checked
             ELSE Return([h EXCEPT !.objects[values[1].value] =
                             SetItem(@, Key(values[2]), values[3])],
                         NilValue)
    ELSE LanguageError(h, line, "only dicts or lists can be called with mut()")

at(line, values, h) ==
    IF Len(values) # 2
    THEN LanguageError(h, line, "at() expects two args (index, value)")
    ELSE IF values[1].cls = "NoneType" THEN NoAttribute(h)
    ELSE IF values[1].cls = "ListValue"
    THEN LET checked == list_index(line, values, h)
         IN  IF checked.exc # "" THEN checked
             ELSE IF values[2].value[1] >= Len(h.objects[values[1].value])
             THEN IndexError(h)
             ELSE Return(h, h.objects[values[1].value][values[2].value[1] + 1])
    ELSE IF values[1].cls = "DictValue"
    THEN LET checked == dict_key(line, values, h)
             entries == h.objects[values[1].value]
             found == KeyIndex(entries, Key(values[2]))
         IN  IF checked.exc # "" THEN checked
             ELSE IF found = 0 THEN Return(h, NilValue)
             ELSE Return(h, entries[found].value)
    ELSE LanguageError(h, line, "only dicts or lists can be called with mut()")

\* keysof: a new list of a new StringValue around each key as it is
keysof(line, values, h) ==
    IF Len(values) # 1
    THEN LanguageError(h, line, "keys() expects one arg (dict)")
    ELSE LET arg_type == check_type(values[1], h, line, {"DictValue"},
                                    "only dicts can be called with keys()")
             entries == h.objects[values[1].value]
             with_list ==
                 NewList([h EXCEPT !.ids = @ + Len(entries)],
                         [i \in DOMAIN entries |->
                             [cls |-> "StringValue", value |-> entries[i].key.value,
                              id |-> h.ids + i]])
         IN  IF arg_type.exc # "" THEN arg_type
             ELSE Return(with_list, ListValue(Len(with_list.objects)))

\* the values of a dict, last stored first
ValuesReversed(entries) ==
    [i \in DOMAIN entries |-> entries[Len(entries) + 1 - i].value]

\* list(values[0].value.values()): the values in the order of the keys
Values(entries) == [i \in DOMAIN entries |-> entries[i].value]

\* vals: a new list of the values
vals(line, values, h) ==
    IF Len(values) # 1
    THEN LanguageError(h, line, "vals() expects one arg (dict)")
    ELSE LET arg_type == check_type(values[1], h, line, {"DictValue"},
                                    "only dicts can be called with vals()")
             entries == h.objects[values[1].value]
             with_list == NewList(h, Values(entries))
         IN  IF arg_type.exc # "" THEN arg_type
             ELSE Return(with_list, ListValue(Len(with_list.objects)))

(***************************************************************************)
(* Files.  h.files maps the path of every file that exists to its text;    *)
(* open fails for a path that names no file (mode "r") or that is empty.   *)
(***************************************************************************)
\* a read that loses the character after each chunk
ChunkAndSkip(content, offset) ==
    SubSeq(content, offset + 2,
           IF offset + 1 + chunk_size < Len(content)
           THEN offset + 1 + chunk_size ELSE Len(content))

\* f.read(chunk_size) at the offset: the next characters, at most
\* chunk_size of them, and "" at the end of the file
Chunk(content, offset) ==
    SubSeq(content, offset + 1,
           IF offset + chunk_size < Len(content)
           THEN offset + chunk_size ELSE Len(content))

\* the loop of read; except Exception turns every exception of the
\* callback into the LanguageError of read
RECURSIVE read_from(_, _, _, _, _)
read_from(line, read_function, h, content, offset) ==
    LET b == Chunk(content, offset)
        r == call_as_func(read_function, line,
                          <<Identified(h, StringValue(b))>>, Fresh(h))
    IN  IF r.exc # "" THEN LanguageError(r.h, line, "error reading")
        ELSE IF b = <<>> THEN Return(r.h, StringValue(<<>>))
        ELSE read_from(line, read_function, r.h, content,
                       offset + Len(b))

read(line, values, h) ==
    IF Len(values) # 2
    THEN LanguageError(h, line, "read() expects two args [string, function]")
    ELSE LET path_type == check_type(values[1], h, line, {"StringValue"},
                              "read() expects a string file path as the first arg")
             function_type == check_type(values[2], h, line, {"FunctionValue"},
                              "read() expects a read function as the second arg")
         IN  IF path_type.exc # "" THEN path_type
             ELSE IF function_type.exc # "" THEN function_type
             ELSE IF values[1].value \notin DOMAIN h.files
             THEN LanguageError(h, line, "error reading")
             ELSE read_from(line, values[2], h, h.files[values[1].value], 0)

\* a write that puts the text in place of what the file held
Overwritten(content, text) == text

\* open(file_path, "a") and f.write(text)
Appended(content, text) == content \o text

write(line, values, h) ==
    IF Len(values) # 2
    THEN LanguageError(h, line, "write() expects two args [string, string | number]")
    ELSE LET path_type == check_type(values[1], h, line, {"StringValue"},
                              "write() expects a (string) file path as the first arg")
             value_type == check_type(values[2], h, line,
                              {"StringValue", "NumberValue"},
                              "write() expects a (string | number) as the second arg")
             file_path == values[1].value
             \* open(file_path, "a") makes the file when there is none
             opened == IF file_path \in DOMAIN h.files THEN h
                       ELSE [h EXCEPT !.files = @ @@ (file_path :> <<>>)]
         IN  IF path_type.exc # "" THEN path_type
             ELSE IF value_type.exc # "" THEN value_type
             ELSE IF file_path = <<>> THEN LanguageError(h, line, "error writing")
             \* f.write takes a str: a float is a TypeError, which the
             \* except clause turns into the error of write
             ELSE IF values[2].cls # "StringValue"
             THEN LanguageError(opened, line, "error writing")
             ELSE Return([opened EXCEPT !.files[file_path] =
                             Appended(@, values[2].value)],
                         NilValue)

\* the host functions inject_builtins binds
builtin(name, line, values, h) ==
    CASE name = "log" -> log(line, values, h)
      [] name = "read" -> read(line, values, h)
      [] name = "write" -> write(line, values, h)
      [] name = "dict" -> dictionary(line, values, h)
      [] name = "mut" -> mut(line, values, h)
      [] name = "at" -> at(line, values, h)
      [] name = "keys" -> keysof(line, values, h)
      [] name = "vals" -> vals(line, values, h)
      [] name = "list" -> listof(line, values, h)
      [] name = "join" -> join(line, values, h)
      [] name = "len" -> length(line, values, h)

\* a call_as_func without its except clause
Unhandled(r, depth, line) == [r EXCEPT !.h.depth = depth]

\* except RecursionError: raise LanguageError; anything else leaves the
\* frame as it is
except_RecursionError(r, depth, line) ==
    IF r.exc = "RecursionError"
    THEN LanguageError([r.h EXCEPT !.depth = depth], line,
                       "maximum recursion depth exceeded")
    ELSE [r EXCEPT !.h.depth = depth]

\* Value.call_as_func.  The host raises RecursionError when the frames of
\* nested calls exceed its limit, which happens below the try statement of
\* the innermost call_as_func that is running.
call_as_func(self, line, arguments, h) ==
    LET self_type == check_type(self, h, line, {"FunctionValue"},
                                "only functions are callable")
    IN  IF self_type.exc # "" THEN self_type
        ELSE LET deeper == [h EXCEPT !.depth = @ + 1]
                 r == IF h.depth >= RecursionLimit
                      THEN Raise(h, "RecursionError", 0,
                                 "maximum recursion depth exceeded")
                      ELSE IF h.functions[self.value].builtin # ""
                      THEN builtin(h.functions[self.value].builtin, line,
                                   arguments, deeper)
                      ELSE function(self.value, line, arguments, deeper)
             IN  except_RecursionError(r, h.depth, line)

\* ["fun", function, "nuf"]
eval_fun_decl(node, context, h) == Eval("eval_function", node.children[2], context, h)

eval_declaration(node, context, h) ==
    LET child == node.children[1]
        logged == Log(h, "declaration", node.line, context, child.data)
    IN  CASE child.data = "statement" -> Eval("eval_statement", child, context, logged)
          [] child.data = "fun_decl" -> Eval("eval_fun_decl", child, context, logged)
          [] OTHER -> Raise(h, "Exception", 0, "unreachable")

\* one pass of the loop of eval_program: a BreakEscape or ContinueEscape of
\* the declaration becomes a LanguageError; every other exception, a
\* ReturnEscape included, is handed on
eval_program_child(child, context, h) ==
    LET r == Eval("eval_declaration", child, context, h)
    IN  IF r.exc = "BreakEscape"
        THEN LanguageError(r.h, child.line,
                           "can't use 'break' outside of for loop body")
        ELSE IF r.exc = "ContinueEscape"
        THEN LanguageError(r.h, child.line,
                           "can't use 'continue' outside of for loop body")
        ELSE r

RECURSIVE eval_program_from(_, _, _, _, _)
eval_program_from(node, context, h, i, last) ==
    IF i > Len(node.children) THEN Return(h, last)
    ELSE LET r == Eval("eval_program_child", node.children[i], context, h)
         IN  IF r.exc # "" THEN r
             ELSE eval_program_from(node, context, r.h, i + 1, r.value)

eval_program(node, context, h) == eval_program_from(node, context, h, 1, NilValue)

\* f(node, context): the call of an evaluation function by its name.  Every
\* call of one evaluation function by another, and by interpret, is written
\* Eval("f", node, context, h).  Where f does nothing but return the call of
\* the next function on a child (`return eval_call(node.children[0],
\* context)`), the call made is that one: returns(f, node) is the function
\* and the node at the end of such returns.
Below ==
    [eval_unary |-> "eval_call", eval_factor |-> "eval_unary",
     eval_term |-> "eval_factor", eval_comparison |-> "eval_term",
     eval_equality |-> "eval_comparison", eval_logic_and |-> "eval_equality",
     eval_logic_or |-> "eval_logic_and"]

Statements ==
    [expression_stmt |-> "eval_expression_stmt", return_stmt |-> "eval_return_stmt",
     if_stmt |-> "eval_if_stmt", for_stmt |-> "eval_for_stmt"]

RECURSIVE returns(_, _)
returns(f, node) ==
    CASE f \in DOMAIN Below /\ Len(node.children) = 1 ->
            returns(Below[f], node.children[1])
      [] f = "eval_call" /\ Len(node.children) = 1 /\ node.children[1].data = "primary" ->
            returns("eval_primary", node.children[1])
      [] f = "eval_primary" /\ Len(node.children) = 1 ->
            returns("eval_identifier", node.children[1])
      [] f = "eval_primary" /\ Len(node.children) > 1
            /\ node.children[2].data = "expression" ->
            returns("eval_expression", node.children[2])
      [] f = "eval_assignment" /\ node.children[1].data = "logic_or" ->
            returns("eval_logic_or", node.children[1])
      [] f = "eval_expression" /\ Len(node.children) >= 1
            /\ node.children[1].data = "assignment" ->
            returns("eval_assignment", node.children[1])
      [] f = "eval_expression_stmt" /\ node.children[1].kind = "tree" ->
            returns("eval_expression", node.children[1])
      [] f = "eval_statement" /\ node.children[1].data \in DOMAIN Statements ->
            returns(Statements[node.children[1].data], node.children[1])
      [] f = "eval_fun_decl" ->
            returns("eval_function", node.children[2])
      [] OTHER -> [f |-> f, node |-> node]

Eval(f, node, context, h) ==
    LET to == returns(f, node)
    IN  CASE to.f = "eval_identifier" -> eval_identifier(to.node, context, h)
          [] to.f = "eval_primary" -> eval_primary(to.node, context, h)
          [] to.f = "eval_arguments" -> eval_arguments(to.node, context, h)
          [] to.f = "eval_call" -> eval_call(to.node, context, h)
          [] to.f = "eval_unary" -> eval_unary(to.node, context, h)
          [] to.f = "eval_factor" -> eval_factor(to.node, context, h)
          [] to.f = "eval_term" -> eval_term(to.node, context, h)
          [] to.f = "eval_comparison" -> eval_comparison(to.node, context, h)
          [] to.f = "eval_equality" -> eval_equality(to.node, context, h)
          [] to.f = "eval_logic_and" -> eval_logic_and(to.node, context, h)
          [] to.f = "eval_logic_or" -> eval_logic_or(to.node, context, h)
          [] to.f = "eval_assignment" -> eval_assignment(to.node, context, h)
          [] to.f = "eval_expression" -> eval_expression(to.node, context, h)
          [] to.f = "eval_expression_stmt" -> eval_expression_stmt(to.node, context, h)
          [] to.f = "eval_return_stmt" -> eval_return_stmt(to.node, context, h)
          [] to.f = "eval_if_stmt" -> eval_if_stmt(to.node, context, h)
          [] to.f = "eval_for_stmt" -> eval_for_stmt(to.node, context, h)
          [] to.f = "eval_statement" -> eval_statement(to.node, context, h)
          [] to.f = "eval_function" -> eval_function(to.node, context, h)
          [] to.f = "eval_fun_decl" -> eval_fun_decl(to.node, context, h)
          [] to.f = "eval_declaration" -> eval_declaration(to.node, context, h)
          [] to.f = "eval_program_child" -> eval_program_child(to.node, context, h)
          [] to.f = "eval_program" -> eval_program(to.node, context, h)

(***************************************************************************)
(* The trees the parser builds (keep_all_tokens: every keyword and         *)
(* punctuation mark stays a child).  A rule with an alternative that is a  *)
(* single sub-rule still makes its own node, so an atom sits under one     *)
(* node of every precedence level above it.                                *)
(***************************************************************************)
Levels ==
    <<"call", "unary", "factor", "term", "comparison", "equality",
      "logic_and", "logic_or", "assignment", "expression">>

Rank(data) ==
    IF \E i \in DOMAIN Levels : Levels[i] = data
    THEN CHOOSE i \in DOMAIN Levels : Levels[i] = data
    ELSE 0

\* the node wrapped in the single-child nodes up to the level of rank r
RECURSIVE Up(_, _)
Up(node, r) ==
    IF Rank(node.data) >= r THEN node
    ELSE Up(Tree(Levels[Rank(node.data) + 1], <<node>>), r)

Expression(e) == Up(e, Rank("expression"))

\* "(" expression ")"
Paren(e) == Tree("primary", <<Token("("), Expression(e), Token(")")>>)

\* an operand at the level of rank r, in parentheses when it binds looser
Operand(e, r) == IF Rank(e.data) > r THEN Up(Paren(e), r) ELSE Up(e, r)

Number(n) == Tree("number", <<Token(Numeral(n))>>)
String(chars) == Tree("string", <<Token(<<"\"">> \o chars \o <<"\"">>)>>)
True == Tree("true", <<Token("true")>>)
False == Tree("false", <<Token("false")>>)
Nil == Tree("nil", <<Token("nil")>>)
Identifier(name) == Tree("identifier", <<Token(name)>>)
Name(name) == Tree("primary", <<Identifier(name)>>)

\* operand (op operand)* at a binary level: one flat node
RECURSIVE Operands(_, _, _)
Operands(operands, ops, r) ==
    IF Len(operands) = 1 THEN <<Operand(operands[1], r)>>
    ELSE <<Operand(Head(operands), r), Token(Head(ops))>>
         \o Operands(Tail(operands), Tail(ops), r)

Binary(level, operands, ops) ==
    Tree(level, Operands(operands, ops, Rank(level) - 1))

Unary(op, e) == Tree("unary", <<Token(op), Operand(e, Rank("unary"))>>)

RECURSIVE Separated(_, _)
Separated(items, separator) ==
    IF Len(items) <= 1 THEN items
    ELSE <<Head(items), Token(separator)>> \o Separated(Tail(items), separator)

RECURSIVE Expressions(_)
Expressions(items) ==
    IF items = <<>> THEN <<>>
    ELSE <<Expression(Head(items))>> \o Expressions(Tail(items))

Arguments(args) == Tree("arguments", Separated(Expressions(args), ","))

RECURSIVE ArgumentLists(_)
ArgumentLists(lists) ==
    IF lists = <<>> THEN <<>>
    ELSE <<Token("(")>>
         \o (IF Head(lists) = <<>> THEN <<>> ELSE <<Arguments(Head(lists))>>)
         \o <<Token(")")>> \o ArgumentLists(Tail(lists))

\* primary ( "(" arguments? ")" )+ : callee(args1)(args2)...
Call(callee, lists) ==
    Tree("call", <<Operand(callee, 0)>> \o ArgumentLists(lists))

Assignment(name, e) ==
    Tree("assignment", <<Identifier(name), Token("="), Up(e, Rank("assignment"))>>)

ExpressionStmt(e) == Tree("expression_stmt", <<Expression(e), Token(";")>>)
EmptyStmt == Tree("expression_stmt", <<Token(";")>>)
Statement(s) == Tree("declaration", <<Tree("statement", <<s>>)>>)
Do(e) == Statement(ExpressionStmt(e))
Empty == Statement(EmptyStmt)
ReturnStmt(e) ==
    Statement(Tree("return_stmt", <<Token("return"), Expression(e), Token(";")>>))
ReturnNothing == Statement(Tree("return_stmt", <<Token("return"), Token(";")>>))
IfStmt(condition, body) ==
    Statement(Tree("if_stmt",
        <<Token("if"), Token("("), Expression(condition), Token(")")>>
        \o body \o <<Token("fi")>>))
\* GRAMMAR names for_stmt and has no rule for it, nor for break_stmt and
\* continue_stmt: these are the nodes eval_statement and eval_for_stmt take,
\* with the tokens of the statements of tests.py.  eval_for_stmt reads the
\* children that are trees only: an expression_stmt, an expression_stmt, an
\* expression, and the declarations of the body.
ForStmt(initial, limit, increment, body) ==
    Statement(Tree("for_stmt",
        <<Token("for"), Token("("), ExpressionStmt(initial), ExpressionStmt(limit),
          Expression(increment), Token(")")>> \o body \o <<Token("rof")>>))
BreakStmt == Statement(Tree("break_stmt", <<Token("break"), Token(";")>>))
ContinueStmt == Statement(Tree("continue_stmt", <<Token("continue"), Token(";")>>))
RECURSIVE Identifiers(_)
Identifiers(names) ==
    IF names = <<>> THEN <<>>
    ELSE <<Identifier(Head(names))>> \o Identifiers(Tail(names))

FunDecl(name, parameters, body) ==
    Tree("declaration", <<Tree("fun_decl",
        <<Token("fun"),
          Tree("function",
               <<Identifier(name), Token("(")>>
               \o (IF parameters = <<>> THEN <<>>
                   ELSE <<Tree("parameters",
                               Separated(Identifiers(parameters), ","))>>)
               \o <<Token(")")>> \o body),
          Token("nuf")>>)>>)

\* propagate_positions: the node and the nodes under it that have no line
\* yet are on the given line
RECURSIVE At(_, _)
At(line, node) ==
    [node EXCEPT !.line = IF @ = 0 THEN line ELSE @,
                 !.children = [i \in DOMAIN @ |-> At(line, @[i])]]

AtEach(line, nodes) == [i \in DOMAIN nodes |-> At(line, nodes[i])]

\* a program whose declarations are on the lines they were put on
Program(declarations) == At(1, Tree("program", declarations))

(***************************************************************************)
(* The root Context: inject_builtins, inject_std_lib, get_context.         *)
(***************************************************************************)
BuiltinNames ==
    <<"log", "dict", "list", "mut", "at", "keys", "vals", "read", "write",
      "join", "len">>

Builtin(name) ==
    [builtin |-> name, function_context |-> 0, parameters |-> <<>>, body |-> <<>>]

RECURSIVE inject_builtins_from(_, _, _)
inject_builtins_from(h, context, i) ==
    IF i > Len(BuiltinNames) THEN h
    ELSE LET set == ContextSet(Fresh([h EXCEPT !.functions =
                                             Append(@, Builtin(BuiltinNames[i]))]),
                               context, BuiltinNames[i],
                               Identified(h, FunctionValue(Len(h.functions) + 1)))
         IN  IF set.depth = 0 THEN inject_builtins_from(set, context, i + 1) ELSE set

inject_builtins(h, context) == inject_builtins_from(h, context, 1)

\* the tree of the source text of inject_std_lib, which starts with an
\* empty line
StdLib ==
    Tree("program",
      <<At(2, FunDecl("read_all", <<"file_path">>,
          <<At(3, Do(Assignment("ret", String(<<>>)))),
            At(4, FunDecl("each_chunk", <<"chunk">>,
                <<At(5, Do(Assignment("ret",
                        Call(Name("join"), <<<<Name("ret"), Name("chunk")>>>>))))>>)),
            At(7, Do(Call(Name("read"), <<<<Name("file_path"), Name("each_chunk")>>>>))),
            At(8, ReturnStmt(Name("ret")))>>))>>)

inject_std_lib(h, context) == Eval("eval_program", StdLib, context, h).h

inject_all(h, context) ==
    LET injected == inject_builtins(h, context)
    IN  IF injected.depth = 0 THEN inject_std_lib(injected, context) ELSE injected

\* get_context: the heap holding the root Context, which is Context 1
get_context ==
    [inject_all([EmptyHeap EXCEPT !.contexts = <<Context(0)>>], 1)
        EXCEPT !.trace = <<>>]

(***************************************************************************)
(* The programs interpret is run on.  A source is named by its family and  *)
(* the parameters that fill the family's text; SourceTree is the tree the  *)
(* parser builds for it.  Every declaration is on a line of its own,       *)
(* given in the comments.                                                  *)
(***************************************************************************)
\* the largest number literal of a source
MaxLiteral == 2
\* the largest number of passes of a for loop, and of calls of one closure
MaxPasses == 5

Literals == 0..MaxLiteral

Plus(a, b) == Binary("term", <<a, b>>, <<"+">>)
Less(a, b) == Binary("comparison", <<a, b>>, <<"<">>)
Equal(a, b) == Binary("equality", <<a, b>>, <<"==">>)
Increment(name) == Assignment(name, Plus(Name(name), Number(1)))
CallOf(name, args) == Call(Name(name), <<args>>)
\* for (i = 0; i < n; i = i + 1) body rof
Count(name, n, body) ==
    ForStmt(Assignment(name, Number(0)), Less(Name(name), Number(n)),
            Increment(name), body)

Source(family, kind, op1, op2, a, b, c) ==
    [family |-> family, kind |-> kind, op1 |-> op1, op2 |-> op2,
     a |-> a, b |-> b, c |-> c]

\* the statement `break;` or `continue;` on a line, or no statement
Keyword(kind, line) ==
    CASE kind = "break" -> <<At(line, BreakStmt)>>
      [] kind = "continue" -> <<At(line, ContinueStmt)>>
      [] OTHER -> <<>>

\* name = n;  and  name = name + 1;  and  name;  on a line
Let(line, name, n) == At(line, Do(Assignment(name, Number(n))))
Step(line, name) == At(line, Do(Increment(name)))
Show(line, name) == At(line, Do(Name(name)))

(* op1 is the scope the closure g is called from, which binds x to b:      *)
(*  1 fun mk()                                                             *)
(*  2   x = a;                                                             *)
(*  3   fun f()                                                            *)
(*  4     return x;                                                        *)
(*      nuf                                                                *)
(*  5   return f;                                                          *)
(*    nuf                                                                  *)
(*  6 g = mk();                                                            *)
(*   parameter  7 fun caller(x) (8) return g(); nuf     9 caller(b);       *)
(*   local      7 fun caller() (8) x = b; (9) return g(); nuf  10 caller();*)
(*   global     7 x = b;   8 g();                                          *)
(*   loop       7 r = nil;                                                 *)
(*              8 for (x = b; x < b + 1; x = x + 1) (9) r = g(); rof  10 r;*)
ScopeSource(s) ==
    Program(<<
        At(1, FunDecl("mk", <<>>,
            <<Let(2, "x", s.a),
              At(3, FunDecl("f", <<>>, <<At(4, ReturnStmt(Name("x")))>>)),
              At(5, ReturnStmt(Name("f")))>>)),
        At(6, Do(Assignment("g", CallOf("mk", <<>>))))>>
        \o (CASE s.op1 = "parameter" ->
                    <<At(7, FunDecl("caller", <<"x">>,
                          <<At(8, ReturnStmt(CallOf("g", <<>>)))>>)),
                      At(9, Do(CallOf("caller", <<Number(s.b)>>)))>>
               [] s.op1 = "local" ->
                    <<At(7, FunDecl("caller", <<>>,
                          <<Let(8, "x", s.b),
                            At(9, ReturnStmt(CallOf("g", <<>>)))>>)),
                      At(10, Do(CallOf("caller", <<>>)))>>
               [] s.op1 = "global" ->
                    <<Let(7, "x", s.b), At(8, Do(CallOf("g", <<>>)))>>
               [] s.op1 = "loop" ->
                    <<At(7, Do(Assignment("r", Nil))),
                      At(8, ForStmt(Assignment("x", Number(s.b)),
                                    Less(Name("x"), Number(s.b + 1)),
                                    Increment("x"),
                                    <<At(9, Do(Assignment("r", CallOf("g", <<>>))))>>)),
                      Show(10, "r")>>))

(*  1 fun closure()               *)
(*  2   z = 0;                    *)
(*  3   fun inner()               *)
(*  4     z = z + 1;              *)
(*  5     return z;               *)
(*      nuf                       *)
(*  6   fun peek()                *)
(*  7     return z;               *)
(*      nuf                       *)
(*  8   p = peek;                 *)
(*  9   return inner;             *)
(*    nuf                         *)
(* 10 p = nil;                    *)
(* 11 c = closure();              *)
(* 12 c();            (a times, on lines 12 .. 11 + a)                     *)
(*    p();            (on line 12 + a)                                     *)
RECURSIVE Calls(_, _, _)
Calls(name, line, n) ==
    IF n = 0 THEN <<>>
    ELSE <<At(line, Do(CallOf(name, <<>>)))>> \o Calls(name, line + 1, n - 1)

CounterSource(s) ==
    Program(<<
        At(1, FunDecl("closure", <<>>,
            <<Let(2, "z", 0),
              At(3, FunDecl("inner", <<>>,
                  <<Step(4, "z"), At(5, ReturnStmt(Name("z")))>>)),
              At(6, FunDecl("peek", <<>>, <<At(7, ReturnStmt(Name("z")))>>)),
              At(8, Do(Assignment("p", Name("peek")))),
              At(9, ReturnStmt(Name("inner")))>>)),
        At(10, Do(Assignment("p", Nil))),
        At(11, Do(Assignment("c", CallOf("closure", <<>>))))>>
        \o Calls("c", 12, s.a)
        \o Calls("p", 12 + s.a, 1))

(*  1 fun closure() (2) z = 0; (3) fun inner() (4) z = z + 1;              *)
(*    (5) return z; nuf (6) return inner; nuf                              *)
(*  7 closure()();                                                         *)
ClosureSource(s) ==
    Program(<<
        At(1, FunDecl("closure", <<>>,
            <<Let(2, "z", 0),
              At(3, FunDecl("inner", <<>>,
                  <<Step(4, "z"), At(5, ReturnStmt(Name("z")))>>)),
              At(6, ReturnStmt(Name("inner")))>>)),
        At(7, Do(Call(Name("closure"), <<<<>>, <<>>>>)))>>)

(* kind is break or continue; op1 is where it is written:                  *)
(*   program          1 n = 0;  2 kind;  3 n = 1;                          *)
(*   program_if       1 n = 0;  2 if (true) (3) kind; fi  4 n = 1;         *)
(*   function         1 n = 0;  2 fun b() (3) kind; nuf   4 b();  5 n = 1; *)
(*   function_if      1 n = 0;  2 fun b() (3) if (true) (4) kind; fi nuf   *)
(*                    5 b();  6 n = 1;                                     *)
(*   called_in_loop   1 n = 0;  2 fun b() (3) kind; nuf                    *)
(*                    4 for (i = 0; i < 2; i = i + 1) (5) b();             *)
(*                      (6) n = n + 1; rof   7 n;                          *)
(*   defined_in_loop  1 n = 0;                                             *)
(*                    2 for (i = 0; i < 2; i = i + 1) (3) fun b() (4) kind;*)
(*                      nuf (5) b(); (6) n = n + 1; rof   7 n;             *)
EscapeSource(s) ==
    Program(<<Let(1, "n", 0)>> \o
      (CASE s.op1 = "program" -> Keyword(s.kind, 2) \o <<Let(3, "n", 1)>>
         [] s.op1 = "program_if" ->
               <<At(2, IfStmt(True, Keyword(s.kind, 3))), Let(4, "n", 1)>>
         [] s.op1 = "function" ->
               <<At(2, FunDecl("b", <<>>, Keyword(s.kind, 3))),
                 At(4, Do(CallOf("b", <<>>))), Let(5, "n", 1)>>
         [] s.op1 = "function_if" ->
               <<At(2, FunDecl("b", <<>>, <<At(3, IfStmt(True, Keyword(s.kind, 4)))>>)),
                 At(5, Do(CallOf("b", <<>>))), Let(6, "n", 1)>>
         [] s.op1 = "called_in_loop" ->
               <<At(2, FunDecl("b", <<>>, Keyword(s.kind, 3))),
                 At(4, Count("i", 2, <<At(5, Do(CallOf("b", <<>>))), Step(6, "n")>>)),
                 Show(7, "n")>>
         [] s.op1 = "defined_in_loop" ->
               <<At(2, Count("i", 2, <<At(3, FunDecl("b", <<>>, Keyword(s.kind, 4))),
                                       At(5, Do(CallOf("b", <<>>))),
                                       Step(6, "n")>>)),
                 Show(7, "n")>>))

(* kind is break, continue or none; a is the number of passes the header   *)
(* allows; the keyword is guarded by `if (i == b)` when op1 is "if".       *)
(*  1 m = 0;                                                               *)
(*  2 n = 0;                                                               *)
(*  3 for (i = 0; i < a; i = i + 1)                                        *)
(*  4   m = m + 1;                                                         *)
(*  5   kind;             or   5 if (i == b) (6) kind; fi                  *)
(*  7   n = n + 1;                                                         *)
(*    rof                                                                  *)
(*  8 n;                                                                   *)
LoopSource(s) ==
    Program(<<
        Let(1, "m", 0),
        Let(2, "n", 0),
        At(3, Count("i", s.a,
              <<Step(4, "m")>>
              \o (IF s.op1 = "if"
                  THEN <<At(5, IfStmt(Equal(Name("i"), Number(s.b)),
                                      Keyword(s.kind, 6)))>>
                  ELSE Keyword(s.kind, 5))
              \o <<Step(7, "n")>>)),
        Show(8, "n")>>)

(* the keyword in the inner of two loops:                                  *)
(*  1 m = 0;                                                               *)
(*  2 n = 0;                                                               *)
(*  3 for (i = 0; i < a; i = i + 1)                                        *)
(*  4   for (j = 0; j < b; j = j + 1)                                      *)
(*  5     kind;                                                            *)
(*  6     m = m + 1;                                                       *)
(*      rof                                                                *)
(*  7   n = n + 1;                                                         *)
(*    rof                                                                  *)
(*  8 n;                                                                   *)
NestedLoopSource(s) ==
    Program(<<
        Let(1, "m", 0),
        Let(2, "n", 0),
        At(3, Count("i", s.a,
              <<At(4, Count("j", s.b, Keyword(s.kind, 5) \o <<Step(6, "m")>>)),
                Step(7, "n")>>)),
        Show(8, "n")>>)

\* return a;  or  return;  on a line
ReturnOf(s, line) ==
    At(line, IF s.op2 = "nothing" THEN ReturnNothing ELSE ReturnStmt(Number(s.a)))

(* op1 is where the function body has its return statement:                *)
(*   none      1 r = 0;  2 fun f() (3) r = 1; nuf            9 f();        *)
(*   plain     1 r = 0;  2 fun f() (3) return a; (4) r = 1; nuf    9 f();  *)
(*   if        1 r = 0;  2 fun f() (3) if (true) (4) return a; (5) r = 1;  *)
(*             fi (6) r = 1; nuf    9 f();                                 *)
(*   for       1 r = 0;  2 fun f() (3) for (i = 0; i < 2; i = i + 1)       *)
(*             (4) return a; (5) r = 1; rof (6) r = 1; nuf    9 f();       *)
(*   for_if    1 r = 0;  2 fun f() (3) for (i = 0; i < 2; i = i + 1)       *)
(*             (4) if (i == 1) (5) return a; fi (6) r = r + 1; rof         *)
(*             (7) r = 5; nuf    9 f();                                    *)
(*   inner     1 r = 0;  2 fun f() (3) fun g() (4) return a; nuf (5) g();  *)
(*             (6) r = 1; nuf    9 f();                                    *)
(* and op2 = "nothing" writes `return;` for `return a;`.                   *)
ReturnSource(s) ==
    LET body ==
          CASE s.op1 = "none" -> <<Let(3, "r", 1)>>
            [] s.op1 = "plain" -> <<ReturnOf(s, 3), Let(4, "r", 1)>>
            [] s.op1 = "if" ->
                  <<At(3, IfStmt(True, <<ReturnOf(s, 4), Let(5, "r", 1)>>)),
                    Let(6, "r", 1)>>
            [] s.op1 = "for" ->
                  <<At(3, Count("i", 2, <<ReturnOf(s, 4), Let(5, "r", 1)>>)),
                    Let(6, "r", 1)>>
            [] s.op1 = "for_if" ->
                  <<At(3, Count("i", 2,
                        <<At(4, IfStmt(Equal(Name("i"), Number(1)), <<ReturnOf(s, 5)>>)),
                          Step(6, "r")>>)),
                    Let(7, "r", 5)>>
            [] s.op1 = "inner" ->
                  <<At(3, FunDecl("g", <<>>, <<ReturnOf(s, 4)>>)),
                    At(5, Do(CallOf("g", <<>>))),
                    Let(6, "r", 1)>>
    IN  Program(<<Let(1, "r", 0),
                  At(2, FunDecl("f", <<>>, body)),
                  At(9, Do(CallOf("f", <<>>)))>>)

(* a return statement outside every function body; op1 is where:           *)
(*   program   1 r = 0;  2 return a;  4 r = 1;                             *)
(*   if        1 r = 0;  2 if (true) (3) return a; fi  4 r = 1;            *)
(*   for       1 r = 0;  2 for (i = 0; i < 2; i = i + 1) (3) return a; rof *)
(*             4 r = 1;                                                    *)
TopReturnSource(s) ==
    Program(<<Let(1, "r", 0)>>
          \o (CASE s.op1 = "program" -> <<ReturnOf(s, 2)>>
                [] s.op1 = "if" -> <<At(2, IfStmt(True, <<ReturnOf(s, 3)>>))>>
                [] s.op1 = "for" -> <<At(2, Count("i", 2, <<ReturnOf(s, 3)>>))>>)
          \o <<Let(4, "r", 1)>>)

(* one program per way an evaluation fails: line 1 is `r = 0;`, the        *)
(* statement that fails is on line 2 (after a function declaration on the  *)
(* same line, where it calls one), and line 3 is `r = 1;`                  *)
FailureKinds ==
    <<"divide", "unknown", "not_callable", "literal_call", "negate", "flip",
      "add", "multiply", "compare", "and", "or", "if", "for", "arity",
      "recursion", "len", "join_nil", "join_number", "join_list", "log_result",
      "break", "continue">>

FailureSource(s) ==
    LET one == Number(1)
        str == String(<<"a">>)
    IN  Program(<<Let(1, "r", 0)>> \o AtEach(2,
          (CASE s.kind = "divide" -> <<Do(Binary("factor", <<one, Number(0)>>, <<"/">>))>>
             [] s.kind = "unknown" -> <<Do(Name("x"))>>
             [] s.kind = "not_callable" -> <<Do(CallOf("r", <<>>))>>
             [] s.kind = "literal_call" -> <<Do(Call(one, <<<<>>>>))>>
             [] s.kind = "negate" -> <<Do(Unary("-", True))>>
             [] s.kind = "flip" -> <<Do(Unary("!", one))>>
             [] s.kind = "add" -> <<Do(Plus(one, True))>>
             [] s.kind = "multiply" -> <<Do(Binary("factor", <<str, one>>, <<"*">>))>>
             [] s.kind = "compare" -> <<Do(Less(one, Nil))>>
             [] s.kind = "and" -> <<Do(Binary("logic_and", <<one, True>>, <<"and">>))>>
             [] s.kind = "or" -> <<Do(Binary("logic_or", <<False, one>>, <<"or">>))>>
             [] s.kind = "if" -> <<IfStmt(one, <<>>)>>
             [] s.kind = "for" -> <<ForStmt(Assignment("i", Number(0)), one,
                                            Increment("i"), <<>>)>>
             [] s.kind = "arity" -> <<FunDecl("f", <<"x">>, <<>>), Do(CallOf("f", <<>>))>>
             [] s.kind = "recursion" ->
                   <<FunDecl("f", <<>>, <<Do(CallOf("f", <<>>))>>), Do(CallOf("f", <<>>))>>
             [] s.kind = "len" -> <<Do(CallOf("len", <<one>>))>>
             [] s.kind = "join_nil" -> <<Do(CallOf("join", <<Nil, Nil>>))>>
             [] s.kind = "join_number" -> <<Do(CallOf("join", <<str, one>>))>>
             [] s.kind = "join_list" ->
                   <<Do(CallOf("join", <<CallOf("list", <<>>), one>>))>>
             [] s.kind = "log_result" -> <<Do(Equal(CallOf("log", <<one>>), one))>>
             [] s.kind = "break" -> <<BreakStmt>>
             [] s.kind = "continue" -> <<ContinueStmt>>))
          \o <<Let(3, "r", 1)>>)

\* the names x1 .. xn
Parameters(n) == [i \in 1..n |-> "x" \o ToString(i)]

\* the literals 1 .. n
Ones(n) == [i \in 1..n |-> Number(i)]

(*  1 n = 0;                                                               *)
(*  2 fun f(x1, .., xa) (3) n = 1; nuf                                     *)
(*  4 f(1, .., b);                                                         *)
(*  5 n;                                                                   *)
AritySource(s) ==
    Program(<<Let(1, "n", 0),
              At(2, FunDecl("f", Parameters(s.a), <<Let(3, "n", 1)>>)),
              At(4, Do(CallOf("f", Ones(s.b)))),
              Show(5, "n")>>)

\* the argument lists (1)(2) .. (n)
RECURSIVE Applications(_)
Applications(n) ==
    IF n = 0 THEN <<>> ELSE Append(Applications(n - 1), <<Number(n)>>)

\* fun name(x) n = n + 1; if (n == k) return n; fi return other; nuf
Link(line, name, other, k) ==
    At(line, FunDecl(name, <<"x">>,
        <<Step(line + 1, "n"),
          At(line + 2, IfStmt(Equal(Name("n"), Number(k)),
                              <<ReturnStmt(Name("n"))>>)),
          At(line + 3, ReturnStmt(Name(other)))>>))

(* op1 is the callee, f or log; the application number a of f and g gives  *)
(* a Number instead of a function; there are b + 1 applications:           *)
(*  1 n = 0;                                                               *)
(*  2 fun g(x) (3) n = n + 1; (4) if (n == a) return n; fi                 *)
(*    (5) return f; nuf                                                    *)
(*  6 fun f(x) (7) n = n + 1; (8) if (n == a) return n; fi                 *)
(*    (9) return g; nuf                                                    *)
(* 10 op1(1)(2) .. (b + 1);                                                *)
ChainedSource(s) ==
    Program(<<Let(1, "n", 0),
              Link(2, "g", "f", s.a),
              Link(6, "f", "g", s.a),
              At(10, Do(Call(Name(s.op1), Applications(s.b + 1))))>>)

(* kind is where the function calls itself:                                *)
(*  1 a = 1000;                                                            *)
(*    statement  2 fun f(x) (3) a = a - 1; (4) f(x); nuf                   *)
(*    return     2 fun f(x) (3) a = a - 1; (4) return f(x + 1); nuf        *)
(*    argument   2 fun f(x) (3) a = a - 1; (4) return f(f(x)); nuf         *)
(*    condition  2 fun f(x) (3) a = a - 1; (4) if (f(x)) fi nuf            *)
(*    loop       2 fun f(x) (3) for (i = 0; i < 1; i = i + 1) (4) f(x); rof*)
(*               nuf                                                       *)
(*  5 f(0);                                                                *)
(*  6 a;                                                                   *)
RecursionKinds == {"statement", "return", "argument", "condition", "loop"}

RecursionSource(s) ==
    LET again == CallOf("f", <<Name("x")>>)
        less == At(3, Do(Assignment("a", Binary("term", <<Name("a"), Number(1)>>,
                                                <<"-">>))))
        body ==
          CASE s.kind = "statement" -> <<less, At(4, Do(again))>>
            [] s.kind = "return" ->
                 <<less, At(4, ReturnStmt(CallOf("f", <<Plus(Name("x"), Number(1))>>)))>>
            [] s.kind = "argument" ->
                 <<less, At(4, ReturnStmt(CallOf("f", <<again>>)))>>
            [] s.kind = "condition" -> <<less, At(4, IfStmt(again, <<>>))>>
            [] s.kind = "loop" -> <<At(3, Count("i", 1, <<At(4, Do(again))>>))>>
    IN  Program(<<Let(1, "a", 1000),
                  At(2, FunDecl("f", <<"x">>, body)),
                  At(5, Do(CallOf("f", <<Number(0)>>))),
                  Show(6, "a")>>)

(* 1 a op1 b op2 c;   with the two operators of one binary level, which    *)
(* the parser puts in one node of five children                            *)
ChainLevels == <<"term", "factor", "equality", "logic_and", "logic_or", "comparison">>

ChainOps(level) ==
    CASE level = "term" -> {"+", "-"}
      [] level = "factor" -> {"*", "/"}
      [] level = "equality" -> {"==", "!="}
      [] level = "logic_and" -> {"and"}
      [] level = "logic_or" -> {"or"}
      [] level = "comparison" -> {"<", ">", "<=", ">="}

\* the operands of a chain: numbers, or for the logical levels the booleans
\* false (0) and true (any other number)
ChainOperand(level, n) ==
    IF level \in {"logic_and", "logic_or"}
    THEN (IF n = 0 THEN False ELSE True)
    ELSE Number(n)

ChainSource(s) ==
    Program(<<Do(Binary(s.kind,
                        <<ChainOperand(s.kind, s.a), ChainOperand(s.kind, s.b),
                          ChainOperand(s.kind, s.c)>>,
                        <<s.op1, s.op2>>))>>)

\* the operands of a binary expression, by kind: the numbers n, -n and n.5,
\* the booleans, nil, the strings "a" and "", the function log, the lists
\* list() and list(1), and what the call log(1) gives
NumberKinds == {"number", "negative", "half"}
OperandKinds ==
    NumberKinds \cup {"true", "false", "nil", "string", "empty", "function",
                      "list", "list1", "logged"}

Decimal(n, fraction) == Tree("number", <<Token(Numeral(n) \o <<".">> \o fraction)>>)

BinaryOperand(kind, n) ==
    CASE kind = "number" -> Number(n)
      [] kind = "negative" -> Unary("-", Number(n))
      [] kind = "half" -> Decimal(n, <<"5">>)
      [] kind = "true" -> True
      [] kind = "false" -> False
      [] kind = "nil" -> Nil
      [] kind = "string" -> String(<<"a">>)
      [] kind = "empty" -> String(<<>>)
      [] kind = "function" -> Name("log")
      [] kind = "list" -> CallOf("list", <<>>)
      [] kind = "list1" -> CallOf("list", <<Number(1)>>)
      [] kind = "logged" -> CallOf("log", <<Number(1)>>)

BinaryOps ==
    [term |-> {"+", "-"}, factor |-> {"*", "/"}, comparison |-> {"<", "<=", ">", ">="},
     equality |-> {"==", "!="}, logic_and |-> {"and"}, logic_or |-> {"or"}]

BinaryLevel(op) == CHOOSE level \in DOMAIN BinaryOps : op \in BinaryOps[level]

\* x op y;
BinarySource(s) ==
    Program(<<Do(Binary(BinaryLevel(s.kind),
                        <<BinaryOperand(s.op1, s.a), BinaryOperand(s.op2, s.b)>>,
                        <<s.kind>>))>>)

\* the operands of the binary sources: a number for the kinds that have one
BinaryOperands ==
    {<<kind, n>> : kind \in NumberKinds, n \in Literals}
    \cup {<<kind, 0>> : kind \in OperandKinds \ NumberKinds}

(* The list of the numbers 1 .. c, an index written op1 with the literal a, *)
(* and kind the operations made with it:                                   *)
(*  1 l = list(1, .., c);                                                  *)
(*    mut_at  2 mut(l, index, "v");  3 at(l, index);                       *)
(*    at      2 at(l, index);                                              *)
IndexSource(s) ==
    LET index == BinaryOperand(s.op1, s.a)
    IN  Program(<<At(1, Do(Assignment("l", CallOf("list", Ones(s.c)))))>>
          \o (IF s.kind = "mut_at"
              THEN <<At(2, Do(CallOf("mut", <<Name("l"), index, String(<<"v">>)>>))),
                     At(3, Do(CallOf("at", <<Name("l"), index>>)))>>
              ELSE <<At(2, Do(CallOf("at", <<Name("l"), index>>)))>>))

\* the keys of the dict programs: numbers, the strings "a" and "", and the
\* string that is the text of the float n
KeyKinds == {"number", "half", "string", "empty", "text"}

DictKey(kind, n) ==
    IF kind = "text" THEN String(FloatStr(Rat(n, 1))) ELSE BinaryOperand(kind, n)

DictKeys ==
    {<<kind, n>> : kind \in {"number", "half", "text"}, n \in Literals}
        \cup {<<"string", 0>>, <<"empty", 0>>}

(* x is the key op1 with the literal a, y the key op2 with the literal b,  *)
(* and kind what is stored under x before at reads y:                      *)
(*    none      1 d = dict();          2 ;                                 *)
(*    dict      1 d = dict(x, 1);      2 ;                                 *)
(*    twice     1 d = dict(x, 1, x, 2);  2 ;                               *)
(*    mut       1 d = dict();          2 mut(d, x, 2);                     *)
(*    dict_mut  1 d = dict(x, 1);      2 mut(d, x, 2);                     *)
(*  3 k = keys(d);                                                         *)
(*  4 at(d, y);                                                            *)
StoreKinds == {"none", "dict", "twice", "mut", "dict_mut"}

DictSource(s) ==
    LET x == DictKey(s.op1, s.a)
        y == DictKey(s.op2, s.b)
        pairs == CASE s.kind \in {"dict", "dict_mut"} -> <<x, Number(1)>>
                   [] s.kind = "twice" -> <<x, Number(1), x, Number(2)>>
                   [] OTHER -> <<>>
    IN  Program(<<At(1, Do(Assignment("d", CallOf("dict", pairs)))),
                  At(2, IF s.kind \in {"mut", "dict_mut"}
                        THEN Do(CallOf("mut", <<Name("d"), x, Number(2)>>))
                        ELSE Empty),
                  At(3, Do(Assignment("k", CallOf("keys", <<Name("d")>>)))),
                  At(4, Do(CallOf("at", <<Name("d"), y>>)))>>)

(* A dict of c pairs, with the keys x (op1, a) and y (op2, b):             *)
(*  1 d = dict();   or   d = dict(x, 1);   or   d = dict(x, 1, y, 2);      *)
(*  2 k = keys(d);                                                         *)
(*  3 v = vals(d);                                                         *)
PairsSource(s) ==
    LET x == DictKey(s.op1, s.a)
        y == DictKey(s.op2, s.b)
        pairs == CASE s.c = 0 -> <<>>
                   [] s.c = 1 -> <<x, Number(1)>>
                   [] OTHER -> <<x, Number(1), y, Number(2)>>
    IN  Program(<<At(1, Do(Assignment("d", CallOf("dict", pairs)))),
                  At(2, Do(Assignment("k", CallOf("keys", <<Name("d")>>)))),
                  At(3, Do(Assignment("v", CallOf("vals", <<Name("d")>>))))>>)

\* the kinds of argument join is called with
JoinKinds ==
    {"number", "true", "nil", "string", "empty", "function", "list", "list1",
     "logged"}

(*  1 join(x, y);   with x of the kind op1 and y of the kind op2           *)
JoinSource(s) ==
    Program(<<At(1, Do(CallOf("join", <<BinaryOperand(s.op1, 1),
                                        BinaryOperand(s.op2, 1)>>)))>>)

\* the text of a file of n characters: the first n digits after 0
Content(n) == [i \in 1..n |-> DigitChars[(i % 10) + 1]]

\* the lengths of the files read: up to two chunks and a character
FileLengths == 0..(2 * chunk_size + 1)

\* the file system interpret starts on: op1 tells whether the file "p"
\* exists, and then it holds a characters
Mount(h, s) ==
    IF s.family \in {"read", "write"} /\ s.op1 = "file"
    THEN [h EXCEPT !.files = (<<"p">> :> Content(s.a))]
    ELSE h

(*  1 n = 0;                                                               *)
(*  2 fun f(chunk) (3) n = n + 1; nuf                                      *)
(*  4 read("p", f);                                                        *)
(*  5 n;                                                                   *)
ReadSource(s) ==
    Program(<<Let(1, "n", 0),
              At(2, FunDecl("f", <<"chunk">>, <<Step(3, "n")>>)),
              At(4, Do(CallOf("read", <<String(<<"p">>), Name("f")>>))),
              Show(5, "n")>>)

(*  1 write("p", v);   with v of the kind op2 and the literal b            *)
WriteSource(s) ==
    Program(<<At(1, Do(CallOf("write", <<String(<<"p">>),
                                         BinaryOperand(s.op2, s.b)>>)))>>)

\* opts["profile"] of the run: on for the programs of the family "profile"
profile(s) == s.family = "profile"

(*  1 fun g() nuf                                                          *)
(*  2 fun f() (3) g(); nuf                                                 *)
(*  4 for (i = 0; i < a; i = i + 1) f(); rof                               *)
(*  5 f();        when b = 1, and  5 1;  when b = 0                        *)
ProfileSource(s) ==
    Program(<<At(1, FunDecl("g", <<>>, <<>>)),
              At(2, FunDecl("f", <<>>, <<At(3, Do(CallOf("g", <<>>)))>>)),
              At(4, Count("i", s.a, <<At(4, Do(CallOf("f", <<>>)))>>)),
              At(5, Do(IF s.b = 1 THEN CallOf("f", <<>>) ELSE Number(1)))>>)

(* op1 is where x is bound when f is called with the argument b:           *)
(*   global     1 x = a;  2 fun f(x) (3) return x; nuf  4 r = f(b);  5 x;   *)
(*   fresh      1 y = a;  2 fun f(x) (3) return x; nuf  4 r = f(b);  5 y;   *)
(*   enclosing  1 fun outer() (2) x = a; (3) fun f(x) return x; nuf         *)
(*                (4) f(b); (5) return x; nuf           6 r = outer();      *)
BindingSource(s) ==
    LET f(line) == At(line, FunDecl("f", <<"x">>, <<At(line + 1, ReturnStmt(Name("x")))>>))
        name == IF s.op1 = "global" THEN "x" ELSE "y"
    IN  Program(
        IF s.op1 = "enclosing"
        THEN <<At(1, FunDecl("outer", <<>>,
                    <<Let(2, "x", s.a),
                      At(3, FunDecl("f", <<"x">>, <<At(3, ReturnStmt(Name("x")))>>)),
                      At(4, Do(CallOf("f", <<Number(s.b)>>))),
                      At(5, ReturnStmt(Name("x")))>>)),
               At(6, Do(Assignment("r", CallOf("outer", <<>>))))>>
        ELSE <<Let(1, name, s.a), f(2),
               At(4, Do(Assignment("r", CallOf("f", <<Number(s.b)>>)))),
               Show(5, name)>>)

(*  1 t = 0;                                                               *)
(*  2 for (i = 0; i < a; i = i + 1)                                        *)
(*  3   if (i == 0) n = 0; fi                                              *)
(*  4   n = n + 1;                                                         *)
(*  5   t = t + n;                                                         *)
(*    rof                                                                  *)
(*  6 t;   or  6 i;   or  6 n;   the name op1                              *)
ForSource(s) ==
    Program(<<Let(1, "t", 0),
              At(2, Count("i", s.a,
                    <<At(3, IfStmt(Equal(Name("i"), Number(0)), <<Let(3, "n", 0)>>)),
                      Step(4, "n"),
                      At(5, Do(Assignment("t", Plus(Name("t"), Name("n")))))>>)),
              Show(6, s.op1)>>)

\* one operator of each binary level
OrderOps == {"+", "*", "<", "==", "and", "or"}
\* what l() and r() return; r may fail instead, on reading an unbound name
OrderKinds == {"true", "false", "number", "nil"}

(* kind is the operator, op1 and op2 what l and r return, c the operands:  *)
(*  1 fun l() return op1; nuf                                              *)
(*  2 fun r() return op2; nuf      or  fun r() return nope; nuf            *)
(*  3 fun t() return 1; nuf                                                *)
(*  4 l() kind r();                or  l() kind r() kind t();              *)
OrderSource(s) ==
    LET giving(line, name, e) == At(line, FunDecl(name, <<>>, <<At(line, ReturnStmt(e))>>))
        operands == <<CallOf("l", <<>>), CallOf("r", <<>>), CallOf("t", <<>>)>>
    IN  Program(<<giving(1, "l", BinaryOperand(s.op1, 1)),
                  giving(2, "r", IF s.op2 = "fails" THEN Name("nope")
                                  ELSE BinaryOperand(s.op2, 1)),
                  giving(3, "t", Number(1)),
                  At(4, Do(Binary(BinaryLevel(s.kind), SubSeq(operands, 1, s.c),
                                  [i \in 1..(s.c - 1) |-> s.kind])))>>)

(* op1 tells whether the name z the closures capture is bound globally:   *)
(*  1 z = 5;          (bound)   or   1 y = 5;   (free)                     *)
(*  2 fun closure() (3) z = 0; (4) fun inner() (5) z = z + 1;              *)
(*    (6) return z; nuf (7) return inner; nuf                              *)
(*  8 c = closure();                                                       *)
(*  9 d = closure();                                                       *)
(* 10 c();            (a times, on lines 10 .. 9 + a)                      *)
(*    d();            (on line 10 + a)                                     *)
(*    c();            (on line 11 + a)                                     *)
TwinSource(s) ==
    Program(<<
        Let(1, IF s.op1 = "bound" THEN "z" ELSE "y", 5),
        At(2, FunDecl("closure", <<>>,
            <<Let(3, "z", 0),
              At(4, FunDecl("inner", <<>>,
                  <<Step(5, "z"), At(6, ReturnStmt(Name("z")))>>)),
              At(7, ReturnStmt(Name("inner")))>>)),
        At(8, Do(Assignment("c", CallOf("closure", <<>>)))),
        At(9, Do(Assignment("d", CallOf("closure", <<>>))))>>
        \o Calls("c", 10, s.a)
        \o Calls("d", 10 + s.a, 1)
        \o Calls("c", 11 + s.a, 1))

\* what is assigned: a literal of each kind
AssignedKinds == {"number", "true", "nil", "string"}

(* c is the number of names assigned, v the literal of the kind op1:       *)
(*  1 b = v;      or  1 a = b = v;      or  1 a = c = b = v;               *)
AssignSource(s) ==
    LET v == BinaryOperand(s.op1, s.a)
        b == Assignment("b", v)
    IN  Program(<<At(1, Do(CASE s.c = 1 -> b
                             [] s.c = 2 -> Assignment("a", b)
                             [] s.c = 3 -> Assignment("a", Assignment("c", b))))>>)

\* source.splitlines() of a profiled program: its text, above, has a line
\* for each of the lines 1 .. 5 its nodes are on
splitlines(s) == CASE s.family = "profile" -> 5

Passes == 0..MaxPasses

\* the programs interpret is run on
Sources ==
    {Source("scope", "", site, "", a, b, 0) :
        site \in {"parameter", "local", "global", "loop"}, a \in Literals, b \in Literals}
    \cup {Source("counter", "", "", "", a, 0, 0) : a \in Passes}
    \cup {Source("closure", "", "", "", 0, 0, 0)}
    \cup {Source("escape", kind, site, "", 0, 0, 0) :
            kind \in {"break", "continue"},
            site \in {"program", "program_if", "function", "function_if",
                      "called_in_loop", "defined_in_loop"}}
    \cup {Source("loop", kind, "always", "", a, 0, 0) :
            kind \in {"break", "continue", "none"}, a \in Passes}
    \cup {Source("loop", kind, "if", "", a, b, 0) :
            kind \in {"break", "continue"}, a \in Passes, b \in Passes}
    \cup {Source("nested", kind, "", "", a, b, 0) :
            kind \in {"break", "continue", "none"}, a \in Literals, b \in Literals}
    \cup {Source("return", "", site, value, a, 0, 0) :
            site \in {"none", "plain", "if", "for", "for_if", "inner"},
            value \in {"value", "nothing"}, a \in Literals}
    \cup {Source("top_return", "", site, value, a, 0, 0) :
            site \in {"program", "if", "for"},
            value \in {"value", "nothing"}, a \in Literals}
    \cup {Source("failure", FailureKinds[i], "", "", 0, 0, 0) : i \in DOMAIN FailureKinds}
    \cup {Source("arity", "", "", "", a, b, 0) : a \in Literals, b \in Literals}
    \cup {Source("chained", "", callee, "", a, b, 0) :
            callee \in {"f", "log"}, a \in Literals, b \in Literals}
    \cup {Source("recursion", kind, "", "", 0, 0, 0) : kind \in RecursionKinds}
    \cup {Source("index", kind, index, "", a, 0, c) :
            kind \in {"mut_at", "at"}, index \in NumberKinds,
            a \in Literals, c \in Literals}
    \cup {Source("dict", kind, x[1], y[1], x[2], y[2], 0) :
            kind \in StoreKinds, x \in DictKeys, y \in DictKeys}
    \cup {Source("pairs", "", x[1], y[1], x[2], y[2], 2) :
            x \in DictKeys, y \in DictKeys}
    \cup {Source("pairs", "", x[1], x[1], x[2], x[2], 1) : x \in DictKeys}
    \cup {Source("pairs", "", "string", "string", 0, 0, 0)}
    \cup {Source("join", "", x, y, 0, 0, 0) : x \in JoinKinds, y \in JoinKinds}
    \cup {Source("read", "", "file", "", a, 0, 0) : a \in FileLengths}
    \cup {Source("read", "", "missing", "", 0, 0, 0)}
    \cup {Source("profile", "", "", "", a, b, 0) : a \in Literals, b \in {0, 1}}
    \cup {Source("for", "", name, "", a, 0, 0) :
            name \in {"t", "i", "n"}, a \in Literals}
    \cup {Source("order", op, x, y, 0, 0, c) :
            op \in OrderOps, x \in OrderKinds, y \in OrderKinds \cup {"fails"},
            c \in {2, 3}}
    \cup {Source("twin", "", z, "", a, 0, 0) : z \in {"free", "bound"}, a \in Literals}
    \cup {Source("assign", "", kind, "", a, 0, c) :
            kind \in AssignedKinds, a \in Literals, c \in 1..3}
    \cup {Source("binding", "", site, "", a, b, 0) :
            site \in {"global", "fresh", "enclosing"}, a \in Literals, b \in Literals}
    \cup {Source("write", "", file, v[1], a, v[2], 0) :
            file \in {"file", "missing"}, a \in Literals,
            v \in {<<"string", 0>>, <<"empty", 0>>}
                    \cup {<<kind, n>> : kind \in NumberKinds, n \in Literals}}
    \cup {Source("binary", op, x[1], y[1], x[2], y[2], 0) :
            op \in UNION {BinaryOps[level] : level \in DOMAIN BinaryOps},
            x \in BinaryOperands, y \in BinaryOperands}
    \cup UNION {{Source("chain", ChainLevels[i], op1, op2, a, b, c) :
                    op1 \in ChainOps(ChainLevels[i]), op2 \in ChainOps(ChainLevels[i]),
                    a \in Literals, b \in Literals, c \in Literals} :
                i \in DOMAIN ChainLevels}

\* get_root: the tree the parser builds of the source text
get_root(s) ==
    CASE s.family = "scope" -> ScopeSource(s)
      [] s.family = "counter" -> CounterSource(s)
      [] s.family = "closure" -> ClosureSource(s)
      [] s.family = "escape" -> EscapeSource(s)
      [] s.family = "loop" -> LoopSource(s)
      [] s.family = "nested" -> NestedLoopSource(s)
      [] s.family = "return" -> ReturnSource(s)
      [] s.family = "top_return" -> TopReturnSource(s)
      [] s.family = "failure" -> FailureSource(s)
      [] s.family = "chain" -> ChainSource(s)
      [] s.family = "binary" -> BinarySource(s)
      [] s.family = "arity" -> AritySource(s)
      [] s.family = "chained" -> ChainedSource(s)
      [] s.family = "recursion" -> RecursionSource(s)
      [] s.family = "index" -> IndexSource(s)
      [] s.family = "dict" -> DictSource(s)
      [] s.family = "pairs" -> PairsSource(s)
      [] s.family = "join" -> JoinSource(s)
      [] s.family = "read" -> ReadSource(s)
      [] s.family = "write" -> WriteSource(s)
      [] s.family = "profile" -> ProfileSource(s)
      [] s.family = "binding" -> BindingSource(s)
      [] s.family = "assign" -> AssignSource(s)
      [] s.family = "twin" -> TwinSource(s)
      [] s.family = "order" -> OrderSource(s)
      [] s.family = "for" -> ForSource(s)

(***************************************************************************)
(* interpret as a state machine: a step per declaration of the program.    *)
(***************************************************************************)
VARIABLES pc, source, root, heap, child, last, raised, result, called

vars == <<pc, source, root, heap, child, last, raised, result, called>>

NoSource == Source("", "", "", "", 0, 0, 0)
\* no tree: interpret has parsed nothing yet
NoRoot == Program(<<>>)
NoException == [exc |-> "", line |-> 0, message |-> "", value |-> NilValue]
NoResult == [kind |-> "", value |-> NilValue, line |-> 0, message |-> ""]
NoCall ==
    [op |-> "", self |-> 0, key |-> "", value |-> NilValue, exc |-> "",
     message |-> ""]

Init ==
    /\ pc = "idle"
    /\ source = NoSource
    /\ root = NoRoot
    /\ heap = EmptyHeap
    /\ child = 0
    /\ last = NilValue
    /\ raised = NoException
    /\ result = NoResult
    /\ called = NoCall

\* interpret(source): get_context and get_root, up to the loop of eval_program
Interpret(s) ==
    /\ pc = "idle"
    /\ source' = s
    /\ root' = get_root(s)
    /\ heap' = Mount([get_context EXCEPT !.profile = profile(s)], s)
    /\ child' = 1
    /\ last' = NilValue
    /\ pc' = "eval_program"
    /\ UNCHANGED <<raised, result, called>>

\* one pass of the loop of eval_program
EvalProgramChild ==
    /\ pc = "eval_program"
    /\ child <= Len(root.children)
    /\ LET r == Eval("eval_program_child", root.children[child], 1, heap)
       IN  /\ heap' = r.h
           /\ IF r.exc = ""
              THEN /\ last' = r.value
                   /\ child' = child + 1
                   /\ UNCHANGED <<pc, raised>>
              ELSE /\ raised' = [exc |-> r.exc, line |-> r.line,
                                 message |-> r.message, value |-> r.value]
                   /\ pc' = "raised"
                   /\ UNCHANGED <<last, child>>
    /\ UNCHANGED <<source, root, result, called>>

\* len(source.splitlines()) of the run
SourceLines == splitlines(source)

\* the number of records of a line in line_durations["calls"]
CallsOn(h, ln) == Cardinality({i \in DOMAIN h.calls : h.calls[i].line = ln})

\* Context.print_line_profile: the first loop enumerates the lines from 0 and
\* keeps in line_info those among 0..lines-1 that have records; the second
\* loop prints, for ln = i + 1, the lines found in line_info. The report is
\* the number of calls printed for each line; max() of no line_info raises
print_line_profile(h, lines) ==
    LET line_info == {ln \in 0..(lines - 1) : CallsOn(h, ln) > 0}
    IN  IF line_info = {}
        THEN Raise(h, "ValueError", 0, "max() arg is an empty sequence")
        ELSE Return([h EXCEPT !.report =
                        [ln \in (1..lines) \cap line_info |-> CallsOn(h, ln)]],
                    PyNone)

\* eval_program returns last; with opts["profile"] the profile is printed;
\* and interpret returns last
InterpretReturn ==
    /\ pc = "eval_program"
    /\ child > Len(root.children)
    /\ LET printed == IF heap.profile THEN print_line_profile(heap, SourceLines)
                      ELSE Return(heap, PyNone)
       IN  IF printed.exc = ""
           THEN /\ result' = [kind |-> "value", value |-> last, line |-> 0,
                              message |-> ""]
                /\ heap' = printed.h
                /\ pc' = "returned"
                /\ UNCHANGED raised
           ELSE /\ raised' = printed
                /\ pc' = "raised"
                /\ UNCHANGED <<heap, result>>
    /\ UNCHANGED <<source, root, child, last, called>>

\* except LanguageError as e: return e; any other exception leaves interpret
InterpretExcept ==
    /\ pc = "raised"
    /\ IF raised.exc = "LanguageError"
       THEN /\ result' = [kind |-> "LanguageError", value |-> NilValue,
                          line |-> raised.line, message |-> raised.message]
            /\ pc' = "returned"
       ELSE /\ result' = [kind |-> raised.exc, value |-> raised.value,
                          line |-> raised.line, message |-> raised.message]
            /\ pc' = "propagated"
    /\ UNCHANGED <<source, root, heap, child, last, raised, called>>

Next ==
    \/ \E s \in Sources : Interpret(s)
    \/ EvalProgramChild
    \/ InterpretReturn
    \/ InterpretExcept

Spec == Init /\ [][Next]_vars

(***************************************************************************)
(* class Context on its own: get_child_context, set and get called in any  *)
(* order on the scopes of a tree that grows from one root Context.         *)
(***************************************************************************)
Names == {"a", "b"}

\* the (name, value) pairs set is called with: the values are objects the
\* caller made
Bindings ==
    {<<"a", [NumberValue(Rat(1, 1)) EXCEPT !.id = 1]>>,
     <<"a", [NumberValue(Rat(2, 1)) EXCEPT !.id = 2]>>,
     <<"b", [NumberValue(Rat(1, 1)) EXCEPT !.id = 3]>>}

InitContext ==
    /\ pc = "context"
    /\ source = NoSource
    /\ root = NoRoot
    /\ heap = [EmptyHeap EXCEPT !.contexts = <<Context(0)>>]
    /\ child = 0
    /\ last = NilValue
    /\ raised = NoException
    /\ result = NoResult
    /\ called = NoCall

CallGetChildContext(self) ==
    /\ pc = "context"
    /\ Len(heap.contexts) < MaxContexts
    /\ heap' = GetChildContext(heap, self)
    /\ called' = [NoCall EXCEPT !.op = "get_child_context", !.self = self]
    /\ UNCHANGED <<pc, source, root, child, last, raised, result>>

CallSet(self, key, value) ==
    /\ pc = "context"
    /\ heap' = ContextSet(heap, self, key, value)
    /\ called' = [NoCall EXCEPT !.op = "set", !.self = self, !.key = key,
                                !.value = value]
    /\ UNCHANGED <<pc, source, root, child, last, raised, result>>

CallGet(self, key) ==
    /\ pc = "context"
    /\ LET r == ContextGet(heap, self, 0, key)
       IN  /\ heap' = r.h
           /\ called' = [NoCall EXCEPT !.op = "get", !.self = self, !.key = key,
                                       !.value = r.value, !.exc = r.exc,
                                       !.message = r.message]
    /\ UNCHANGED <<pc, source, root, child, last, raised, result>>

NextContext ==
    \/ \E self \in DOMAIN heap.contexts : CallGetChildContext(self)
    \/ \E self \in DOMAIN heap.contexts, b \in Bindings : CallSet(self, b[1], b[2])
    \/ \E self \in DOMAIN heap.contexts, key \in Names : CallGet(self, key)

SpecContext == InitContext /\ [][NextContext]_vars

(***************************************************************************)
(* Properties.                                                             *)
(***************************************************************************)
\* the scopes from c outward through the parent links: c first, the root last
RECURSIVE Chain(_, _)
Chain(contexts, c) ==
    IF c = 0 THEN <<>> ELSE <<c>> \o Chain(contexts, contexts[c].parent)

Binds(contexts, c, key) == key \in DOMAIN contexts[c].lookup

\* the nearest scope on the chain of c that binds key, or 0 when none does
Nearest(contexts, c, key) ==
    LET chain == Chain(contexts, c)
        holders == {i \in DOMAIN chain : Binds(contexts, chain[i], key)}
    IN  IF holders = {} THEN 0
        ELSE chain[CHOOSE i \in holders : \A j \in holders : i <= j]

\* C1: Context.set(name, value) on a scope overwrites the binding of the
\* nearest scope on the chain that binds name, and creates no binding; when
\* no scope on the chain binds name it binds name in the scope it was called
\* on.  Every other binding of every scope, and every parent link, is as it
\* was, and no scope is made.
C1_SetWritesNearestBinding ==
    [][called'.op = "set" =>
        LET self == called'.self
            key == called'.key
            nearest == Nearest(heap.contexts, self, key)
            written == IF nearest = 0 THEN self ELSE nearest
        IN  /\ Len(heap'.contexts) = Len(heap.contexts)
            /\ \A c \in DOMAIN heap.contexts :
                 /\ heap'.contexts[c].parent = heap.contexts[c].parent
                 /\ DOMAIN heap'.contexts[c].lookup =
                       (DOMAIN heap.contexts[c].lookup)
                       \cup (IF c = written /\ nearest = 0 THEN {key} ELSE {})
                 /\ \A k \in DOMAIN heap'.contexts[c].lookup :
                       heap'.contexts[c].lookup[k] =
                          IF c = written /\ k = key THEN called'.value
                          ELSE heap.contexts[c].lookup[k]]_vars

\* set was called on a scope that does not bind the name with a value that
\* is now the binding of an ancestor, and the scope still does not bind it
C1_Witness ==
    /\ called.op = "set"
    /\ ~Binds(heap.contexts, called.self, called.key)
    /\ Nearest(heap.contexts, called.self, called.key) # 0
    /\ heap.contexts[Nearest(heap.contexts, called.self, called.key)]
           .lookup[called.key] = called.value

\* C2: Context.get(name) returns the value name is bound to in the nearest
\* scope on the chain that binds it, and raises "unknown variable" exactly
\* when no scope on the chain binds it.
C2_GetReadsNearestBinding ==
    called.op = "get" =>
        LET nearest == Nearest(heap.contexts, called.self, called.key)
        IN  IF nearest = 0
            THEN called.exc = "LanguageError" /\ called.message = "unknown variable"
            ELSE /\ called.exc = ""
                 /\ called.value = heap.contexts[nearest].lookup[called.key]

\* get was called on a scope that binds the name to another value than its
\* parent does, and returned the scope's own
C2_Witness ==
    /\ called.op = "get"
    /\ called.exc = ""
    /\ called.self # 1
    /\ Binds(heap.contexts, called.self, called.key)
    /\ Binds(heap.contexts, heap.contexts[called.self].parent, called.key)
    /\ heap.contexts[heap.contexts[called.self].parent].lookup[called.key]
          # called.value
    /\ heap.contexts[called.self].lookup[called.key] = called.value
\* the value a name is bound to in the root Context
RootValue(name) == heap.contexts[1].lookup[name]

IsNumber(v, n) == v.cls = "NumberValue" /\ v.value = <<n, 1>>
IsNil(v) == v.cls = "NilValue"

\* how many events of a kind the run has logged on a line
Events(ev, line) ==
    Cardinality({i \in DOMAIN heap.trace :
                    heap.trace[i].ev = ev /\ heap.trace[i].line = line})

\* interpret has returned a Value
Returned == pc = "returned" /\ result.kind = "value"

\* the scope a function was defined in: the one its declaration bound its
\* name in
DefinedIn(f) ==
    LET i == CHOOSE i \in DOMAIN heap.trace :
                 heap.trace[i].ev = "set" /\ heap.trace[i].function = f
    IN  heap.trace[i].context

\* C3: the scope made for a call is a descendant of the scope the function
\* was defined in (a child of the scope the definition captured), whoever
\* calls; so a closure that reads x, called after the call that defined it
\* returned and from a scope that binds x to b, yields the x of the
\* defining scope.
C3_CallScopeDescendsFromDefiningScope ==
    /\ \A i \in DOMAIN heap.trace :
         heap.trace[i].ev = "call" =>
            LET per_call_context == heap.trace[i].context
                function_context == heap.contexts[per_call_context].parent
            IN  /\ function_context # 0
                /\ heap.contexts[function_context].parent
                       = DefinedIn(heap.trace[i].function)
    /\ (source.family = "scope" /\ pc \in {"returned", "propagated"}) =>
            Returned /\ IsNumber(result.value, source.a)

\* the closure was called from a function whose parameter x is bound to
\* another number than the x of the scope the closure was defined in
C3_Witness ==
    /\ source.family = "scope"
    /\ source.op1 = "parameter"
    /\ source.a # source.b
    /\ Returned
    /\ IsNumber(result.value, source.a)
    /\ \E i \in DOMAIN heap.trace : heap.trace[i].ev = "call" /\ heap.trace[i].line = 8

\* C4: the n-th call of the increment-and-return closure of one invocation
\* returns n, and after n calls the other closure of that invocation reads
\* n; closure()() returns 1.
C4_ClosuresShareCapturedVariable ==
    /\ (source.family = "counter" /\ pc = "eval_program" /\ child > 4
            /\ child <= 4 + source.a)
         => IsNumber(last, child - 4)
    /\ (source.family = "counter" /\ pc \in {"returned", "propagated"})
         => Returned /\ IsNumber(result.value, source.a)
    /\ (source.family = "closure" /\ pc \in {"returned", "propagated"})
         => Returned /\ IsNumber(result.value, 1)

\* the closure has been called more than once, and the other closure of the
\* invocation returned the number of calls
C4_Witness ==
    /\ source.family = "counter"
    /\ source.a >= 2
    /\ Returned
    /\ IsNumber(result.value, source.a)

EscapeMessage(kind) ==
    IF kind = "break" THEN "can't use 'break' outside of for loop body"
    ELSE "can't use 'continue' outside of for loop body"

\* C5: a break or continue that leaves the statements of a function body or
\* of the program is the error "can't use 'break'/'continue' outside of for
\* loop body", also when the function is called in the body of a for loop:
\* the loop of the caller runs no increment and no statement after the call.
C5_EscapeOutsideLoopIsError ==
    (source.family = "escape" /\ pc \in {"returned", "propagated"}) =>
        /\ pc = "returned"
        /\ result.kind = "LanguageError"
        /\ result.message = EscapeMessage(source.kind)
        /\ IsNumber(RootValue("n"), 0)
        /\ \A i \in DOMAIN heap.trace : heap.trace[i].ev # "increment"

\* a function whose body is a break was called in the body of a for loop
C5_Witness ==
    /\ source.family = "escape"
    /\ source.kind = "break"
    /\ source.op1 = "called_in_loop"
    /\ pc = "returned"
    /\ result.kind = "LanguageError"
    /\ Events("limit", 4) = 1
    /\ Events("call", 5) = 1

\* the pass of a loop of the family "loop" in which its keyword is reached
KeywordPass == IF source.op1 = "if" THEN source.b ELSE 0

KeywordReached == source.kind # "none" /\ KeywordPass < source.a

\* C6: break ends the nearest enclosing loop at once (the rest of the body
\* and the increment do not run), and continue skips the rest of the body
\* of the pass, after which the increment runs and the condition is tested
\* again: a loop over i = 0..a whose body reaches continue in a pass ends
\* after a passes.
C6_BreakEndsLoopContinueSkipsPass ==
    /\ (source.family = "loop" /\ pc \in {"returned", "propagated"}) =>
         /\ Returned
         /\ IF KeywordReached /\ source.kind = "break"
            THEN /\ IsNumber(RootValue("m"), KeywordPass + 1)
                 /\ IsNumber(RootValue("n"), KeywordPass)
                 /\ Events("increment", 3) = KeywordPass
                 /\ Events("limit", 3) = KeywordPass + 1
            ELSE /\ IsNumber(RootValue("m"), source.a)
                 /\ IsNumber(RootValue("n"),
                             IF ~KeywordReached THEN source.a
                             ELSE IF source.op1 = "if" THEN source.a - 1 ELSE 0)
                 /\ Events("increment", 3) = source.a
                 /\ Events("limit", 3) = source.a + 1
    /\ (source.family = "nested" /\ pc \in {"returned", "propagated"}) =>
         /\ Returned
         /\ IsNumber(RootValue("n"), source.a)
         /\ Events("increment", 3) = source.a
         /\ IsNumber(RootValue("m"),
                     IF source.kind = "none" THEN source.a * source.b ELSE 0)
         /\ Events("increment", 4) =
               IF source.kind = "break" THEN 0 ELSE source.a * source.b

\* a loop over i = 0..MaxPasses whose body reaches continue in every pass
\* has ended after MaxPasses passes, and no statement after continue ran
C6_Witness ==
    /\ source.family = "loop"
    /\ source.kind = "continue"
    /\ source.op1 = "always"
    /\ source.a = MaxPasses
    /\ Returned
    /\ IsNumber(RootValue("m"), MaxPasses)
    /\ IsNumber(RootValue("n"), 0)
\* the Value the return statement of a source of the family "return" gives
IsReturned(v) ==
    IF source.op2 = "nothing" THEN IsNil(v) ELSE IsNumber(v, source.a)

\* C7: a return statement in a function body, also inside an if statement
\* or a for loop of the body, ends the call at once with the returned Value
\* (Nil for `return;`, and Nil when the body ends without a return): no
\* later statement of the body runs and the loop runs no increment and
\* tests its condition no more.  A return in an inner function ends the
\* inner call only.
C7_ReturnEndsCall ==
    (source.family = "return" /\ pc \in {"returned", "propagated"}) =>
        /\ Returned
        /\ CASE source.op1 \in {"none", "inner"} ->
                    IsNil(result.value) /\ IsNumber(RootValue("r"), 1)
             [] source.op1 \in {"plain", "if"} ->
                    IsReturned(result.value) /\ IsNumber(RootValue("r"), 0)
             [] source.op1 = "for" ->
                    /\ IsReturned(result.value)
                    /\ IsNumber(RootValue("r"), 0)
                    /\ Events("increment", 3) = 0
                    /\ Events("limit", 3) = 1
             [] source.op1 = "for_if" ->
                    /\ IsReturned(result.value)
                    /\ IsNumber(RootValue("r"), 1)
                    /\ Events("increment", 3) = 1
                    /\ Events("limit", 3) = 2

\* a return inside an if statement inside a for loop of a function body
\* ran in the second pass of the loop
C7_Witness ==
    /\ source.family = "return"
    /\ source.op1 = "for_if"
    /\ source.op2 = "value"
    /\ Returned
    /\ IsNumber(result.value, source.a)
    /\ Events("declaration", 5) = 1
    /\ Events("declaration", 7) = 0

\* C8: a return statement executed outside every function call makes
\* interpret end with a language error as its result.
C8_TopLevelReturnIsLanguageError ==
    (source.family = "top_return" /\ pc \in {"returned", "propagated"}) =>
        pc = "returned" /\ result.kind = "LanguageError"

\* C9: every failure of an evaluation reaches interpret as a LanguageError
\* with the line of the node that raised it, which interpret returns; no
\* failure leaves interpret as a host exception.
C9_EveryFailureIsLanguageError ==
    (source.family = "failure" /\ pc \in {"returned", "propagated"}) =>
        pc = "returned" /\ result.kind = "LanguageError" /\ result.line > 0

\* (a op1 b) op2 c;  the source of a chain with its first two operands in
\* parentheses
FoldSource(s) ==
    Program(<<Do(Binary(s.kind,
                        <<Paren(Binary(s.kind,
                                       <<ChainOperand(s.kind, s.a),
                                         ChainOperand(s.kind, s.b)>>,
                                       <<s.op1>>)),
                          ChainOperand(s.kind, s.c)>>,
                        <<s.op2>>))>>)

\* what interpret gives for the fold
Fold ==
    LET h == get_context
    IN  IF h.depth = 0 THEN Eval("eval_program", FoldSource(source), 1, h)
        ELSE Return(h, NilValue)

\* C10: a node of one binary level with three operands, a op1 b op2 c,
\* evaluates as the left-associative fold (a op1 b) op2 c does: to the same
\* Value, or to a LanguageError when the fold is one.
C10_ChainIsLeftFold ==
    (source.family = "chain" /\ pc \in {"returned", "propagated"}) =>
        /\ pc = "returned"
        /\ IF Fold.exc = ""
           THEN /\ result.kind = "value"
                /\ result.value.cls = Fold.value.cls
                /\ result.value.value = Fold.value.value
           ELSE result.kind = Fold.exc

\* the number an operand of a number kind is written as: n, -n or n + 1/2
Written(kind, n) ==
    CASE kind = "number" -> <<n, 1>>
      [] kind = "negative" -> <<-n, 1>>
      [] kind = "half" -> <<2 * n + 1, 2>>

\* interpret has ended on the source x op y;
Ended(ops) ==
    source.family = "binary" /\ source.kind \in ops /\ pc \in {"returned", "propagated"}

Numbers == source.op1 \in NumberKinds /\ source.op2 \in NumberKinds

\* interpret returned the LanguageError with this message
Failed(message) ==
    pc = "returned" /\ result.kind = "LanguageError" /\ result.message = message

\* C11: a / 0 ends in the error "cannot divide by zero" for every number a
\* and yields no Number; a / b for a number b other than 0 yields the
\* Number q with q * b = a.
C11_DivisionByZeroIsError ==
    (Ended({"/"}) /\ Numbers) =>
        LET a == Written(source.op1, source.a)
            b == Written(source.op2, source.b)
        IN  IF b[1] = 0
            THEN Failed("cannot divide by zero")
            ELSE /\ Returned
                 /\ result.value.cls = "NumberValue"
                 /\ result.value.value[2] # 0
                 /\ result.value.value[1] * b[1] * a[2]
                        = a[1] * b[2] * result.value.value[2]

\* 1 / -0 has ended in the error
C11_Witness ==
    /\ Ended({"/"})
    /\ source.op1 = "number" /\ source.a = 1
    /\ source.op2 = "negative" /\ source.b = 0
    /\ Failed("cannot divide by zero")


Arithmetic == BinaryOps.term \cup BinaryOps.factor \cup BinaryOps.comparison
Logical == BinaryOps.logic_and \cup BinaryOps.logic_or

Bools == source.op1 \in {"true", "false"} /\ source.op2 \in {"true", "false"}

\* the message of the type error of an operator
TypeMessage(op) ==
    CASE op \in BinaryOps.term -> "only numbers can be added or subtracted"
      [] op \in BinaryOps.factor -> "only numbers can be factored"
      [] op \in BinaryOps.comparison -> "only numbers can be compared"
      [] op = "and" -> "only booleans can be used with 'and'"
      [] op = "or" -> "only booleans can be used with 'or'"

\* C12: x op y for op among + - * / < <= > >= ends in the operator's type
\* error unless x and y are both Numbers, and for op among and, or unless
\* both are Bools; only operands of the right kind give a result.
C12_OperatorsCheckOperandKinds ==
    Ended(Arithmetic \cup Logical) =>
        IF (source.kind \in Arithmetic /\ Numbers) \/ (source.kind \in Logical /\ Bools)
        THEN Returned \/ Failed("cannot divide by zero")
        ELSE Failed(TypeMessage(source.kind))

\* the same without the operand log(1), which is no Value
C12_ValuesOnly ==
    (source.op1 # "logged" /\ source.op2 # "logged") => C12_OperatorsCheckOperandKinds


\* the kind of Value an operand is
KindOf(kind) ==
    CASE kind \in NumberKinds -> "Number"
      [] kind \in {"true", "false"} -> "Bool"
      [] kind = "nil" -> "Nil"
      [] kind \in {"string", "empty"} -> "String"
      [] kind = "function" -> "Function"
      [] kind \in {"list", "list1"} -> "List"

\* two operands of the same kind are structurally equal
Alike ==
    IF source.op1 \in NumberKinds
    THEN Written(source.op1, source.a) = Written(source.op2, source.b)
    ELSE source.op1 = source.op2

\* C13: x == y and x != y never fail; x == y is true exactly when x and y
\* are of the same kind and structurally equal (lists element by element),
\* so false for unlike kinds, and x != y is the opposite.
C13_EqualityIsStructural ==
    (Ended(BinaryOps.equality) /\ source.op1 # "logged" /\ source.op2 # "logged") =>
        /\ Returned
        /\ result.value.cls = "BoolValue"
        /\ result.value.value =
              ((source.kind = "==") <=>
                  (KindOf(source.op1) = KindOf(source.op2) /\ Alike))


\* the program of the family has run to its end, in a value or an error
Done(family) == source.family = family /\ pc \in {"returned", "propagated"}

\* the value the root Context binds the name to
Global(name) == heap.contexts[1].lookup[name]

\* the Context eval_function made for the function the global name holds
FunctionContext(name) == heap.functions[Global(name).value].function_context

\* some call of the function has made its per-call Context
Entered(name) ==
    \E c \in DOMAIN heap.contexts : heap.contexts[c].parent = FunctionContext(name)

\* C14: a call of a user-defined function of a parameters with b # a
\* arguments fails, on the line of the call, with the arity error that
\* names a and b; no statement of the body has run, no Context was made for
\* the call, no parameter was bound and the global the body assigns still
\* holds 0.  With b = a the
\* body runs and the program ends in the 1 it assigned.
C14_ArityIsCheckedBeforeTheBody ==
    Done("arity") =>
        IF source.a # source.b
        THEN /\ Failed(ArityMessage(source.a, source.b))
             /\ result.line = 4
             /\ Events("declaration", 3) = 0
             /\ Events("call", 4) = 0
             /\ ~Entered("f")
             /\ DOMAIN heap.contexts[FunctionContext("f")].lookup = {}
             /\ Global("n").cls = "NumberValue" /\ Global("n").value = Rat(0, 1)
        ELSE /\ Returned
             /\ result.value.cls = "NumberValue" /\ result.value.value = Rat(1, 1)

C14_Witness ==
    /\ Done("arity") /\ source.a = 2 /\ source.b = 1
    /\ Failed(ArityMessage(2, 1))


\* the calls of user-defined functions made on a line, in order
CallsAt(line) ==
    SelectSeq(heap.trace, LAMBDA e : e.ev = "call" /\ e.line = line)

\* the application of the chain whose result is no Function, or 0 when
\* every application gives a Function: what log gives is not callable
Stop ==
    IF source.op1 = "log" THEN 1
    ELSE IF source.a >= 1 /\ source.a <= source.b + 1 THEN source.a
    ELSE 0

\* C15: in op1(1)(2)..(m) the callee is read once; the applications are
\* made in the order written, each on what the one before it returned (f,
\* then g, then f ..), the i-th with the argument i; when application
\* number Stop < m gives a value that is no Function the chain fails with
\* "only functions are callable" and application Stop + 1 is the last one
\* tried.
C15_ChainAppliesLeftToRight ==
    Done("chained") =>
        LET m == source.b + 1
            fails == Stop # 0 /\ Stop < m
            made == IF fails THEN Stop ELSE m
            calls == CallsAt(10)
        IN  /\ Events("get", 10) = 1
            /\ IF fails
               THEN Failed("only functions are callable") /\ result.line = 10
               ELSE Returned
            /\ source.op1 = "f" =>
                 /\ Len(calls) = made
                 /\ Events("apply", 10) = (IF fails THEN made + 1 ELSE made)
                 /\ \A i \in DOMAIN calls :
                      /\ calls[i].function =
                            Global(IF i % 2 = 1 THEN "f" ELSE "g").value
                      /\ heap.contexts[calls[i].context].lookup["x"].value = Rat(i, 1)
                 /\ Global("n").value = Rat(made, 1)
                 /\ Returned =>
                      IF Stop = m
                      THEN /\ result.value.cls = "NumberValue"
                           /\ result.value.value = Rat(m, 1)
                      ELSE /\ result.value.cls = "FunctionValue"
                           /\ result.value.value =
                                 Global(IF m % 2 = 1 THEN "g" ELSE "f").value

\* the chains whose callee is user-defined
C15_UserDefined == source.op1 # "log" => C15_ChainAppliesLeftToRight


\* C16: a program that calls a function which calls itself on every path
\* ends, and the end is interpret returning the error "maximum recursion
\* depth exceeded", raised on the line of the call the function makes of
\* itself: the program never ends in a host exception, the statement that
\* makes the first call never completes, and the calls entered before the
\* error number at most the limit of the host.
C16_RecursionEndsInLanguageError ==
    source.family = "recursion" =>
        /\ pc # "propagated"
        /\ pc = "eval_program" => child <= 3
        /\ pc = "returned" =>
             /\ Failed("maximum recursion depth exceeded")
             /\ result.line = 4
        /\ Len(CallsAt(4)) + Len(CallsAt(5)) <= RecursionLimit

C16_Witness ==
    /\ Done("recursion") /\ source.kind = "return"
    /\ Failed("maximum recursion depth exceeded")
    /\ Len(CallsAt(4)) + Len(CallsAt(5)) = RecursionLimit


\* the entries of the dict, or the elements of the list, the global holds
Object(name) == heap.objects[Global(name).value]

\* the number the Value is, if it is one
IsTheNumber(v, n) == v.cls = "NumberValue" /\ v.value = Rat(n, 1)

\* C17: every key a Dict holds is a string, whether dict(...) or mut stored
\* it; keys(d) is a list of one String for each key; and at(d, x) returns
\* the value dict(x, 1) stored under a Number x.
C17_DictKeysAreStrings ==
    (source.family = "dict" /\ "d" \in DOMAIN heap.contexts[1].lookup) =>
        /\ \A i \in DOMAIN Object("d") : Object("d")[i].key.cls = "str"
        /\ "k" \in DOMAIN heap.contexts[1].lookup =>
              /\ Len(Object("k")) = Len(Object("d"))
              /\ \A i \in DOMAIN Object("k") : Object("k")[i].cls = "StringValue"
        /\ (Done("dict") /\ source.kind = "dict" /\ source.op1 \in NumberKinds
                /\ source.op2 = source.op1 /\ source.b = source.a) =>
              Returned /\ IsTheNumber(result.value, 1)


\* at reads the key that was written
SameKey == source.op2 = source.op1 /\ source.b = source.a

\* at reads a key of the same kind as the one written, which is another key
OtherKey == source.op2 = source.op1 /\ source.b # source.a

\* C20: at(d, y) never fails on a Dict; with y the key x that was stored it
\* returns the value stored last (the 1 of dict(x, 1), the 2 of
\* dict(x, 1, x, 2) and of a mut(d, x, 2) made after), and it returns Nil
\* when nothing was stored or y is another key than x.
C20_AtReturnsTheLastStored ==
    Done("dict") =>
        /\ Returned
        /\ (source.kind = "none" \/ OtherKey) => result.value.cls = "NilValue"
        /\ (source.kind = "dict" /\ SameKey) => IsTheNumber(result.value, 1)
        /\ (source.kind \in {"twice", "mut", "dict_mut"} /\ SameKey) =>
              IsTheNumber(result.value, 2)

\* the dicts whose key is stored by mut, or is a String
C20_KeysAsMutStores ==
    (source.op1 \notin NumberKinds \/ source.kind \in {"none", "mut", "dict_mut"}) =>
        C20_AtReturnsTheLastStored

\* the first two parts of C17, for the dicts whose keys are Strings or are
\* stored by mut
C17_KeysAsMutStores ==
    (source.family = "dict" /\ "d" \in DOMAIN heap.contexts[1].lookup
        /\ (source.op1 \notin NumberKinds \/ source.kind \in {"none", "mut"})) =>
        /\ \A i \in DOMAIN Object("d") : Object("d")[i].key.cls = "str"
        /\ "k" \in DOMAIN heap.contexts[1].lookup =>
              /\ Len(Object("k")) = Len(Object("d"))
              /\ \A i \in DOMAIN Object("k") : Object("k")[i].cls = "StringValue"


\* the index the program writes is a whole number that is at least 0 and
\* less than the length of the list
InRange ==
    /\ source.op1 = "number" \/ (source.op1 = "negative" /\ source.a = 0)
    /\ source.a < source.c

\* the element of the list at the (0-based) index
Element(name, i) == Object(name)[i + 1]

\* C18: with 0 <= i < len(l), mut(l, i, v) and then at(l, i) gives v, the
\* object that was stored; the list is as long as before and holds at every
\* other index the number it held.
C18_MutThenAt ==
    (Done("index") /\ source.kind = "mut_at" /\ InRange) =>
        /\ Returned
        /\ result.value.cls = "StringValue" /\ result.value.value = <<"v">>
        /\ result.value.id = Element("l", source.a).id
        /\ Len(Object("l")) = source.c
        /\ \A j \in 0..(source.c - 1) :
              j # source.a => IsTheNumber(Element("l", j), j + 1)

C18_Witness ==
    /\ Done("index") /\ source.kind = "mut_at" /\ InRange
    /\ source.a = 1 /\ source.c = 2
    /\ Returned /\ result.value.cls = "StringValue"

\* C19: with an index that is negative, is not whole or is not less than
\* the length of the list (any index, when the list is empty), mut and at
\* fail with a language error on their line and the list holds the numbers
\* it held.
C19_BadIndexFails ==
    (Done("index") /\ ~InRange) =>
        /\ pc = "returned" /\ result.kind = "LanguageError"
        /\ result.message \in {"list index must be a positive whole number",
                               "list index out of bounds"}
        /\ result.line = 2
        /\ Len(Object("l")) = source.c
        /\ \A j \in 0..(source.c - 1) : IsTheNumber(Element("l", j), j + 1)

C19_Witness ==
    /\ Done("index") /\ source.kind = "mut_at"
    /\ source.op1 = "number" /\ source.a = 2 /\ source.c = 2
    /\ Failed("list index out of bounds")


\* the key of the kind with the literal n is what the String wraps
Wraps(v, kind, n) ==
    /\ v.cls = "StringValue"
    /\ CASE kind \in NumberKinds -> v.value = Written(kind, n)
         [] kind = "text" -> v.value = FloatStr(Rat(n, 1))
         [] kind = "string" -> v.value = <<"a">>
         [] kind = "empty" -> v.value = <<>>

\* C21: for a dict built from c pairs of different keys, keys(d) and
\* vals(d) are lists of c elements: the i-th element of keys(d) is the key
\* of the i-th pair and the i-th element of vals(d) the value of that pair.
C21_KeysAndValsInInsertionOrder ==
    (Done("pairs")
        /\ (source.c = 2 => (source.op1 # source.op2 \/ source.a # source.b))) =>
        /\ Returned
        /\ Len(Object("k")) = source.c
        /\ Len(Object("v")) = source.c
        /\ source.c >= 1 =>
              /\ Wraps(Object("k")[1], source.op1, source.a)
              /\ IsTheNumber(Object("v")[1], 1)
        /\ source.c >= 2 =>
              /\ Wraps(Object("k")[2], source.op2, source.b)
              /\ IsTheNumber(Object("v")[2], 2)

C21_Witness ==
    /\ Done("pairs") /\ source.c = 2
    /\ source.op1 = "string" /\ source.op2 = "number"
    /\ Len(Object("k")) = 2 /\ Len(Object("v")) = 2


\* the text of a String operand and the elements of a List operand
TextOf(kind) == IF kind = "string" THEN <<"a">> ELSE <<>>
LengthOf(kind) == IF kind = "list1" THEN 1 ELSE 0

\* C24: join(x, y) of two Strings is the String of x's text followed by
\* y's; of two Lists it is a new List of x's elements followed by y's; for
\* every other pairing of kinds it ends in a language error.
C24_JoinChecksBothArguments ==
    (Done("join") /\ source.op1 # "logged" /\ source.op2 # "logged") =>
        IF KindOf(source.op1) = "String" /\ KindOf(source.op2) = "String"
        THEN /\ Returned
             /\ result.value.cls = "StringValue"
             /\ result.value.value = TextOf(source.op1) \o TextOf(source.op2)
        ELSE IF KindOf(source.op1) = "List" /\ KindOf(source.op2) = "List"
        THEN /\ Returned
             /\ result.value.cls = "ListValue"
             /\ result.value.value = 3 /\ Len(heap.objects) = 3
             /\ heap.objects[3] = heap.objects[1] \o heap.objects[2]
             /\ Len(heap.objects[3]) = LengthOf(source.op1) + LengthOf(source.op2)
        ELSE pc = "returned" /\ result.kind = "LanguageError"

\* join of two Strings, of two Lists, and of a first argument that is
\* neither a String nor a List
C24_FirstArgumentOnly ==
    (Done("join") /\ source.op1 # "logged" /\ source.op2 # "logged") =>
        ((KindOf(source.op1) = KindOf(source.op2)
            \/ KindOf(source.op1) \notin {"String", "List"}) =>
            C24_JoinChecksBothArguments)


\* the argument the i-th call made on the line was given
Argument(line, i, name) == heap.contexts[CallsAt(line)[i].context].lookup[name]

\* the chunks the calls of f were given, one after the other
RECURSIVE Delivered(_)
Delivered(i) ==
    IF i = 0 THEN <<>> ELSE Delivered(i - 1) \o Argument(4, i, "chunk").value

\* C22: read("p", f) on a file that exists calls f once for each chunk:
\* the chunks, in the order of the calls, make up the text of the file; the
\* last call is given "" and no call before it is; read then ends, and f
\* has run as often as it was called.
C22_ReadDeliversChunksInOrder ==
    (Done("read") /\ source.op1 = "file") =>
        LET calls == Len(CallsAt(4))
        IN  /\ Returned
            /\ calls >= 1
            /\ \A i \in 1..calls : Argument(4, i, "chunk").cls = "StringValue"
            /\ Delivered(calls) = Content(source.a)
            /\ Argument(4, calls, "chunk").value = <<>>
            /\ \A i \in 1..(calls - 1) : Argument(4, i, "chunk").value # <<>>
            /\ IsTheNumber(result.value, calls)

C22_Witness ==
    /\ Done("read") /\ source.op1 = "file" /\ source.a = 2 * chunk_size + 1
    /\ Len(CallsAt(4)) = 4
    /\ Argument(4, 3, "chunk").value = <<DigitChars[(source.a % 10) + 1]>>

\* what was written is a String
WritesString == source.op2 \in {"string", "empty"}

\* the text the file is to hold after the write of a String
Expected ==
    (IF source.op1 = "file" THEN Content(source.a) ELSE <<>>) \o TextOf(source.op2)

\* C23: write("p", v) returns Nil and leaves the file holding what it held
\* followed by the text of v: for a String v its characters, for a Number v
\* at least one character.
C23_WriteAppends ==
    Done("write") =>
        /\ Returned /\ result.value.cls = "NilValue"
        /\ <<"p">> \in DOMAIN heap.files
        /\ IF WritesString
           THEN heap.files[<<"p">>] = Expected
           ELSE /\ Len(heap.files[<<"p">>]) > Len(Expected)
                /\ SubSeq(heap.files[<<"p">>], 1, Len(Expected)) = Expected

\* the writes of a String
C23_Strings == WritesString => C23_WriteAppends

\* the call applications of the run
Applied == SelectSeq(heap.trace, LAMBDA e : e.ev = "apply")

\* C26: with profiling on, every call application has appended one record
\* to the one list of the run, and once the program has completed the report
\* shows, for every source line with at least one record, the last line
\* included, the number of records of that line.
C26_ReportCountsEveryLine ==
    Done("profile") =>
        /\ Len(heap.calls) = Len(Applied)
        /\ \A ln \in 1..SourceLines :
              CallsOn(heap, ln) > 0 =>
                  ln \in DOMAIN heap.report /\ heap.report[ln] = CallsOn(heap, ln)

\* every call application appends one record, of the line it is on, whatever
\* the Context it is evaluated in
C26_OneRecordForEachCall ==
    Done("profile") =>
        /\ Len(heap.calls) = Len(Applied)
        /\ \A ln \in 1..SourceLines :
              CallsOn(heap, ln) = Len(SelectSeq(Applied, LAMBDA e : e.line = ln))
        /\ CallsOn(heap, 3) = source.a + source.b

\* the report, when one is printed, is right for the lines before the last
C26_LinesBeforeTheLast ==
    (Done("profile") /\ pc = "returned") =>
        \A ln \in 1..(SourceLines - 1) :
            CallsOn(heap, ln) > 0 =>
                ln \in DOMAIN heap.report /\ heap.report[ln] = CallsOn(heap, ln)

\* no report is printed when no line before the last has a call
C26_NoReport ==
    (Done("profile") /\ source.a = 0 /\ source.b = 0) =>
        pc = "propagated" /\ result.kind = "ValueError"

\* the per-call Context of the call of f: the one its "call" event names
PerCall(line) == heap.contexts[CallsAt(line)[1].context]

\* the per-call Context binds the parameter x to n
ParameterIs(n) ==
    "x" \in DOMAIN PerCall(4).lookup /\ IsTheNumber(PerCall(4).lookup["x"], n)

\* C28: binding the argument b to the parameter x creates x in the per-call
\* scope only: an x bound to a in the root scope, or in the scope of the
\* function f is declared in, is still bound to a after the call, and the
\* call returns b.
C28_CallLeavesEnclosingBindings ==
    Done("binding") =>
        /\ Returned
        /\ CASE source.op1 = "global" ->
                    /\ IsTheNumber(Global("x"), source.a)
                    /\ IsTheNumber(Global("r"), source.b)
                    /\ ParameterIs(source.b)
             [] source.op1 = "fresh" ->
                    /\ "x" \notin DOMAIN heap.contexts[1].lookup
                    /\ IsTheNumber(Global("r"), source.b)
                    /\ ParameterIs(source.b)
             [] source.op1 = "enclosing" ->
                    /\ IsTheNumber(Global("r"), source.a)
                    /\ ParameterIs(source.b)

\* a parameter whose name no enclosing scope binds is created in the
\* per-call scope, and there only
C28_FreshParameter ==
    (Done("binding") /\ source.op1 = "fresh") => C28_CallLeavesEnclosingBindings

\* a parameter whose name an enclosing scope binds is not created: the
\* argument is stored in the enclosing scope's binding
C28_ArgumentOverwrites ==
    (Done("binding") /\ source.op1 # "fresh") =>
        /\ Returned
        /\ "x" \notin DOMAIN PerCall(4).lookup
        /\ IF source.op1 = "global"
           THEN IsTheNumber(Global("x"), source.b) /\ IsTheNumber(result.value, source.b)
           ELSE IsTheNumber(Global("r"), source.b)

\* the scopes the run has made besides those interpret starts with
MadeInRun == (Len(get_context.contexts) + 1)..Len(heap.contexts)

\* 1 + 2 + ... + n
RECURSIVE Triangle(_)
Triangle(n) == IF n = 0 THEN 0 ELSE n + Triangle(n - 1)

\* the name is bound to the number n in the scope
BoundTo(scope, name, n) ==
    name \in DOMAIN scope.lookup /\ IsTheNumber(scope.lookup[name], n)

\* C25: a loop of a passes makes one scope, a child of the scope it is in,
\* for its header and every pass of its body.  i, first assigned in the
\* header, and n, first assigned in the body, keep their values from pass
\* to pass (n counts the passes, t sums what n was) and are unbound after
\* the loop; t, bound before the loop, is updated in the enclosing scope.
C25_LoopRunsInOneChildScope ==
    Done("for") =>
        /\ Cardinality(MadeInRun) = 1
        /\ \A c \in MadeInRun :
              /\ heap.contexts[c].parent = 1
              /\ BoundTo(heap.contexts[c], "i", source.a)
              /\ IF source.a = 0 THEN "n" \notin DOMAIN heap.contexts[c].lookup
                 ELSE BoundTo(heap.contexts[c], "n", source.a)
              /\ "t" \notin DOMAIN heap.contexts[c].lookup
              /\ \A e \in DOMAIN heap.trace :
                    heap.trace[e].ev \in {"limit", "increment"} =>
                        heap.trace[e].context = c
        /\ BoundTo(heap.contexts[1], "t", Triangle(source.a))
        /\ {"i", "n"} \cap DOMAIN heap.contexts[1].lookup = {}
        /\ IF source.op1 = "t"
           THEN Returned /\ IsTheNumber(result.value, Triangle(source.a))
           ELSE /\ pc = "returned" /\ result.kind = "LanguageError"
                /\ result.line = 6 /\ result.message = "unknown variable"

C25_Witness ==
    /\ Done("for") /\ source.a = MaxLiteral /\ source.op1 = "n"
    /\ result.kind = "LanguageError"
    /\ BoundTo(heap.contexts[1], "t", Triangle(MaxLiteral))
    /\ \E c \in MadeInRun : BoundTo(heap.contexts[c], "n", MaxLiteral)

\* the i-th call entered on the line is a call of the global function name
CallIs(line, i, name) ==
    i <= Len(CallsAt(line)) /\ CallsAt(line)[i].function = Global(name).value

\* C27: in `l() op r()` and in `l() op r() op t()` every operator has both
\* its operands evaluated, left then right, before it checks or applies
\* anything: l and then r are entered whatever l returns, the failure of r
\* is the failure of the program even when l alone decides the result or is
\* of the wrong kind, and a chain that yields a value has entered t as well.
C27_OperandsAreEvaluatedFirst ==
    Done("order") =>
        /\ CallIs(4, 1, "l") /\ CallIs(4, 2, "r")
        /\ source.op2 = "fails" =>
              /\ Failed("unknown variable") /\ result.line = 2
              /\ Len(CallsAt(4)) = 2
        /\ source.c = 2 => Len(CallsAt(4)) = 2
        /\ (source.c = 3 /\ Returned) => Len(CallsAt(4)) = 3 /\ CallIs(4, 3, "t")

\* the operator of two operands evaluates both first
C27_TwoOperands == source.c = 2 => C27_OperandsAreEvaluatedFirst

\* the third operand of a chain is never evaluated
C27_ThirdOperandIsSkipped ==
    (Done("order") /\ source.c = 3) =>
        /\ Len(CallsAt(4)) = 2
        /\ Returned => result.value.cls \in {"NumberValue", "BoolValue"}

\* the declaration of the program evaluated last is number n of a twin
\* source, counted from the first call of c
AfterCall(n) ==
    source.family = "twin" /\ pc = "eval_program" /\ child = 4 + n + 1

\* the scope the invocation of closure on the line ran in
Invocation(line) == heap.contexts[CallsAt(line)[1].context]

\* C29: c and d come from two invocations of closure and z is bound in no
\* scope around closure.  The n-th call of c returns n, the call of d made
\* after a calls of c returns 1, and the call of c after it returns a + 1:
\* each invocation has its own scope, which binds its own z.
C29_InvocationsCaptureSeparately ==
    source.op1 = "free" =>
        /\ \A n \in 1..source.a : AfterCall(n) => IsTheNumber(last, n)
        /\ AfterCall(source.a + 1) => IsTheNumber(last, 1)
        /\ Done("twin") =>
              /\ Returned /\ IsTheNumber(result.value, source.a + 1)
              /\ CallsAt(8)[1].context # CallsAt(9)[1].context
              /\ BoundTo(Invocation(8), "z", source.a + 1)
              /\ BoundTo(Invocation(9), "z", 1)
              /\ "z" \notin DOMAIN heap.contexts[1].lookup

C29_Witness ==
    /\ Done("twin") /\ source.op1 = "free" /\ source.a = MaxLiteral
    /\ BoundTo(Invocation(8), "z", MaxLiteral + 1)
    /\ BoundTo(Invocation(9), "z", 1)

\* with z bound in the root scope the two closures count in that one z
C29_BoundNameIsShared ==
    source.op1 = "bound" =>
        /\ AfterCall(source.a + 1) => IsTheNumber(last, source.a + 1)
        /\ Done("twin") =>
              /\ Returned /\ IsTheNumber(result.value, source.a + 2)
              /\ BoundTo(heap.contexts[1], "z", source.a + 2)

\* the root scope binds the name to the literal the source assigns
BoundToLiteral(name) ==
    /\ name \in DOMAIN heap.contexts[1].lookup
    /\ CASE source.op1 = "number" -> IsTheNumber(Global(name), source.a)
         [] source.op1 = "true" ->
                Global(name).cls = "BoolValue" /\ Global(name).value = TRUE
         [] source.op1 = "nil" -> Global(name).cls = "NilValue"
         [] source.op1 = "string" ->
                Global(name).cls = "StringValue" /\ Global(name).value = <<"a">>

\* the root scope binds the name to Nil
BoundToNil(name) ==
    name \in DOMAIN heap.contexts[1].lookup /\ Global(name).cls = "NilValue"

\* C30: an assignment yields Nil.  After b = v, a = b = v or a = c = b = v
\* the name b is bound to v and every name left of it to Nil, and the
\* statement's result, which the program returns, is Nil.
C30_AssignmentYieldsNil ==
    Done("assign") =>
        /\ Returned /\ result.value.cls = "NilValue"
        /\ BoundToLiteral("b")
        /\ source.c >= 2 => BoundToNil("a")
        /\ source.c = 3 => BoundToNil("c")
        /\ Events("set", 1) = source.c

C30_Witness ==
    /\ Done("assign") /\ source.c = 2 /\ source.op1 = "number" /\ source.a = MaxLiteral
    /\ IsTheNumber(Global("b"), MaxLiteral) /\ BoundToNil("a")
    /\ result.value.cls = "NilValue"

====
